---- MODULE Spec2Model ----
(***************************************************************************)
(* combinedicts: a multi-source dictionary scraper.                        *)
(*                                                                         *)
(* dictionary_scraper.py holds the transport (fetch_page), one extractor   *)
(* per dictionary (get_definition) and the aggregator (get_word_data);     *)
(* dictionary_app.py holds the lookup worker (DictionaryWorker.run_async). *)
(*                                                                         *)
(* Text taken from a page is a sequence of one-character strings, so that  *)
(* the text operations of the code (strip, split/join, regular-expression  *)
(* prefixes) are computed and not assumed.  A value that may be missing    *)
(* (Python's None, a selector that matches nothing) is a sequence of       *)
(* length 0 or 1.  A dict is a record whose DOMAIN is the dict's key set.  *)
(***************************************************************************)
EXTENDS Integers, Sequences, FiniteSets, TLC

VARIABLES
    req,        \* the DictionaryWorker's constructor arguments
    wpc,        \* where run_async stands
    session,    \* the aiohttp.ClientSession of the CombinedDictionaryScraper
    scrapers,   \* CombinedDictionaryScraper.scrapers
    tasks,      \* the get_definition coroutines awaited by the worker
    order,      \* indices of tasks in the order their fetches completed
    fetches,    \* the URLs requested so far
    signals,    \* the Qt signals emitted by the worker, in order
    probe,      \* one get_definition call on one page (extractor checks)
    gui,        \* the DictionaryApp window: stored results, word, language
    workers,    \* the lookup workers the window has started, each with its thread
    replaced    \* the sessions initialize() has overwritten in self.session

vars == <<req, wpc, session, scrapers, tasks, order, fetches, signals, probe, gui,
          workers, replaced>>

----------------------------------------------------------------------------
(* Optional values and dict fragments *)

None == <<>>

Some(x) == <<x>>

NoFields == [f \in {} |-> <<>>]

Take(s, n) == SubSeq(s, 1, IF Len(s) < n THEN Len(s) ELSE n)

----------------------------------------------------------------------------
(* Text *)

\* The characters outside ASCII that the code names: U+2014 and U+2192.
EmDash == "U+2014"

RightArrow == "U+2192"

IsSpace(c) == c \in {" ", "\n", "\t"}

RECURSIVE LStrip(_)
LStrip(s) ==
    IF s = <<>> THEN <<>>
    ELSE IF IsSpace(Head(s)) THEN LStrip(Tail(s)) ELSE s

RECURSIVE RStrip(_)
RStrip(s) ==
    IF s = <<>> THEN <<>>
    ELSE IF IsSpace(s[Len(s)]) THEN RStrip(SubSeq(s, 1, Len(s) - 1)) ELSE s

strip(s) == RStrip(LStrip(s))

RECURSIVE JoinWords(_)
JoinWords(s) ==
    IF s = <<>> THEN <<>>
    ELSE IF IsSpace(Head(s))
         THEN LET r == LStrip(s)
              IN  IF r = <<>> THEN <<>> ELSE <<" ">> \o JoinWords(r)
         ELSE <<Head(s)>> \o JoinWords(Tail(s))

\* " ".join(text.strip().split())
clean_text(text) == JoinWords(LStrip(text))

startswith(s, p) == Len(s) >= Len(p) /\ SubSeq(s, 1, Len(p)) = p

\* str.replace(old, ""): every non-overlapping occurrence, left to right
RECURSIVE Remove(_, _)
Remove(s, old) ==
    IF s = <<>> THEN <<>>
    ELSE IF startswith(s, old) THEN Remove(SubSeq(s, Len(old) + 1, Len(s)), old)
    ELSE <<Head(s)>> \o Remove(Tail(s), old)

IsDigit(c) == c \in {"0", "1", "2", "3", "4", "5", "6", "7", "8", "9"}

RECURSIVE SkipDigits(_)
SkipDigits(s) ==
    IF s = <<>> THEN <<>>
    ELSE IF IsDigit(Head(s)) THEN SkipDigits(Tail(s)) ELSE s

\* re.sub(r'^:\s*', '', s)
StripColon(s) ==
    IF s # <<>> /\ Head(s) = ":" THEN LStrip(Tail(s)) ELSE s

\* the numbering left where it is
StripNumberingSkipped(s) == s

\* re.sub(r'^\s*\d+\s*[:.)]?\s*', '', s)
StripNumbering(s) ==
    LET a == LStrip(s)
    IN  IF a = <<>> \/ ~IsDigit(Head(a)) THEN s
        ELSE LET b == LStrip(SkipDigits(a))
             IN  IF b # <<>> /\ Head(b) \in {":", ".", ")"}
                 THEN LStrip(Tail(b)) ELSE b

LowerChar(c) ==
    CASE c = "A" -> "a" [] c = "B" -> "b" [] c = "C" -> "c" [] c = "D" -> "d"
      [] c = "E" -> "e" [] c = "F" -> "f" [] c = "G" -> "g" [] c = "H" -> "h"
      [] c = "I" -> "i" [] c = "J" -> "j" [] c = "K" -> "k" [] c = "L" -> "l"
      [] c = "M" -> "m" [] c = "N" -> "n" [] c = "O" -> "o" [] c = "P" -> "p"
      [] c = "Q" -> "q" [] c = "R" -> "r" [] c = "S" -> "s" [] c = "T" -> "t"
      [] c = "U" -> "u" [] c = "V" -> "v" [] c = "W" -> "w" [] c = "X" -> "x"
      [] c = "Y" -> "y" [] c = "Z" -> "z" [] OTHER -> c

\* str.lower()
lower(s) == [i \in DOMAIN s |-> LowerChar(s[i])]

----------------------------------------------------------------------------
(* Transport: DictionaryScraper.fetch_page *)

\* What the network does with one GET: the connection fails or times out
\* ("neterr"), or a response arrives with a status and a body; a body the
\* parser cannot read has parsed = FALSE.
Response(status, parsed, doc) ==
    [kind |-> "http", status |-> status, parsed |-> parsed, doc |-> doc]

NetError == [kind |-> "neterr"]

\* fetch_page, were it to accept every 2xx status
fetch_page_any_2xx(resp) ==
    IF resp.kind = "neterr" THEN None
    ELSE IF resp.status \notin 200..299 THEN None
    ELSE IF ~resp.parsed THEN None
    ELSE Some(resp.doc)

fetch_page(resp) ==
    IF resp.kind = "neterr" THEN None
    ELSE IF resp.status # 200 THEN None
    ELSE IF ~resp.parsed THEN None
    ELSE Some(resp.doc)

----------------------------------------------------------------------------
(* Extractors: construction *)

MerriamWebsterScraper ==
    [cls |-> "MerriamWebsterScraper",
     name |-> "Merriam-Webster",
     base_url |-> "https://www.merriam-webster.com/dictionary/"]

\* a constructor whose else branch is bilingual too
CambridgeAlwaysBilingual(language) ==
    [cls |-> "CambridgeDictionaryScraper",
     name |-> "Cambridge Dictionary",
     base_url |-> "https://dictionary.cambridge.org/dictionary/english/",
     has_translation |-> TRUE]

CambridgeDictionaryScraper(language) ==
    CASE language = "chinese" ->
           [cls |-> "CambridgeDictionaryScraper",
            name |-> "Cambridge Dictionary (English-Chinese)",
            base_url |-> "https://dictionary.cambridge.org/dictionary/english-chinese-simplified/",
            has_translation |-> TRUE]
      [] language = "japanese" ->
           [cls |-> "CambridgeDictionaryScraper",
            name |-> "Cambridge Dictionary (English-Japanese)",
            base_url |-> "https://dictionary.cambridge.org/dictionary/english-japanese/",
            has_translation |-> TRUE]
      [] language = "korean" ->
           [cls |-> "CambridgeDictionaryScraper",
            name |-> "Cambridge Dictionary (English-Korean)",
            base_url |-> "https://dictionary.cambridge.org/dictionary/english-korean/",
            has_translation |-> TRUE]
      [] language = "italian" ->
           [cls |-> "CambridgeDictionaryScraper",
            name |-> "Cambridge Dictionary (English-Italian)",
            base_url |-> "https://dictionary.cambridge.org/dictionary/english-italian/",
            has_translation |-> TRUE]
      [] OTHER ->
           [cls |-> "CambridgeDictionaryScraper",
            name |-> "Cambridge Dictionary",
            base_url |-> "https://dictionary.cambridge.org/dictionary/english/",
            has_translation |-> FALSE]

LongmanDictionaryScraper ==
    [cls |-> "LongmanDictionaryScraper",
     name |-> "Longman Dictionary",
     base_url |-> "https://www.ldoceonline.com/dictionary/"]

\* f"{self.base_url}{word}"
Url(scraper, word) == <<scraper.base_url, word>>

----------------------------------------------------------------------------
(* Extractors: what a get_definition call ends with *)

Return(value) == [kind |-> "return", value |-> value]

Raise(exc) == [kind |-> "raise", exc |-> exc]

Exception(type, text, line) == [type |-> type, text |-> text, line |-> line]

\* a failed fetch reported as a page without definitions
FetchFailedAsEmptyEntry(scraper) ==
    [source |-> scraper.name, definitions |-> <<>>]

FetchFailed(scraper) ==
    [source |-> scraper.name, error |-> "Failed to fetch page"]

\* an except clause that keeps a definitions field beside the error
ExceptClauseKeepingDefinitions(scraper, e) ==
    [source |-> scraper.name, error |-> e.text, definitions |-> <<>>]

\* except Exception as e: return {"source", "error": str(e), "trace"}
\* the except clause returning the pair of fields only
ExceptClauseWithoutTrace(scraper, e) ==
    [source |-> scraper.name, error |-> e.text]

ExceptClause(scraper, e) ==
    [source |-> scraper.name,
     error |-> e.text,
     trace |-> <<e.type, e.line>>]

\* get_definition without its try/except
TryExceptMissing(scraper, body) == body

\* try: <body> except Exception as e: <ExceptClause>
TryExcept(scraper, body) ==
    IF body.kind = "raise" THEN Return(ExceptClause(scraper, body.exc))
    ELSE body

\* A page carries in `fault` the exception, if any, that the document-tree
\* library raises when the extractor queries it.
TreeFault(doc) == doc.fault # None

----------------------------------------------------------------------------
(* Cambridge: CambridgeDictionaryScraper.get_definition *)

CamEntryCap == 2

CamBlockCap == 5

CamExampleCap == 3

\* examples.append(eng_example's text if there is one, else the example's)
CamExample(example) ==
    IF example.eg # None THEN clean_text(example.eg[1])
    ELSE clean_text(example.text)

CamExamples(block) ==
    LET elems == Take(block.examps, CamExampleCap)
    IN  [i \in DOMAIN elems |-> CamExample(elems[i])]

CamTranslation(scraper, block) ==
    IF scraper.has_translation /\ block.trans # None
    THEN clean_text(block.trans[1])
    ELSE <<>>

\* one def-block with a definition element
CamDefObj(scraper, word_type, block) ==
    LET translation == CamTranslation(scraper, block)
    IN  [definition |-> clean_text(block.def[1]),
         examples |-> CamExamples(block),
         pos |-> word_type]
        @@ (IF scraper.has_translation /\ translation # <<>>
            THEN [translation |-> translation] ELSE NoFields)

RECURSIVE CamBlocks(_, _, _)
CamBlocks(scraper, word_type, blocks) ==
    IF blocks = <<>> THEN <<>>
    ELSE (IF Head(blocks).def # None
          THEN <<CamDefObj(scraper, word_type, Head(blocks))>> ELSE <<>>)
         \o CamBlocks(scraper, word_type, Tail(blocks))

\* an entry scanned through all of its def-blocks
CamEntryUncapped(scraper, entry) ==
    LET word_type == IF entry.pos # None THEN clean_text(entry.pos[1]) ELSE <<>>
    IN  CamBlocks(scraper, word_type, entry.blocks)

CamEntry(scraper, entry) ==
    LET word_type == IF entry.pos # None THEN clean_text(entry.pos[1]) ELSE <<>>
    IN  CamBlocks(scraper, word_type, Take(entry.blocks, CamBlockCap))

RECURSIVE CamEntries(_, _)
CamEntries(scraper, entries) ==
    IF entries = <<>> THEN <<>>
    ELSE CamEntry(scraper, Head(entries)) \o CamEntries(scraper, Tail(entries))

CamBody(scraper, word, soup) ==
    IF soup = None THEN Return(FetchFailed(scraper))
    ELSE IF TreeFault(soup[1]) THEN Raise(soup[1].fault[1])
    ELSE Return([source |-> scraper.name,
                 word |-> word,
                 url |-> Url(scraper, word),
                 definitions |-> CamEntries(scraper, Take(soup[1].entries, CamEntryCap))])

----------------------------------------------------------------------------
(* Merriam-Webster: MerriamWebsterScraper.get_definition *)

LegacySectionCap == 7

LegacyExampleCap == 3

RECURSIVE AfterFirst(_, _)
\* the rest of s after the first occurrence of character c (c occurs in s)
AfterFirst(s, c) ==
    IF s = <<>> THEN <<>>
    ELSE IF Head(s) = c THEN Tail(s) ELSE AfterFirst(Tail(s), c)

Contains(s, c) == \E i \in DOMAIN s : s[i] = c

RECURSIVE LastSegment(_)
\* href.split('/')[-1]
LastSegment(s) ==
    IF Contains(s, "/") THEN LastSegment(AfterFirst(s, "/")) ELSE s

RECURSIVE RemoveTags(_)
\* re.sub(r'<[^>]*>', '', s)
RemoveTags(s) ==
    IF s = <<>> THEN <<>>
    ELSE IF Head(s) = "<" /\ Contains(Tail(s), ">")
         THEN RemoveTags(AfterFirst(Tail(s), ">"))
         ELSE <<Head(s)>> \o RemoveTags(Tail(s))

\* re.sub(r'^example\s*[:.]\s*', '', s, flags=re.IGNORECASE)
StripExamplePrefix(s) ==
    LET word == <<"e", "x", "a", "m", "p", "l", "e">>
    IN  IF Len(s) >= Len(word) /\ lower(SubSeq(s, 1, Len(word))) = word
        THEN LET r == LStrip(SubSeq(s, Len(word) + 1, Len(s)))
             IN  IF r # <<>> /\ Head(r) \in {":", "."} THEN LStrip(Tail(r)) ELSE s
        ELSE s

\* the part of speech of one .vg block
MWWordType(pos_block) ==
    IF pos_block.pos_elem = None THEN <<>>
    ELSE LET pos_elem == pos_block.pos_elem[1]
             word_type == strip(Remove(clean_text(pos_elem.text),
                                       <<"v", "e", "r", "b">>))
         IN  IF word_type # <<>> THEN word_type
             ELSE IF pos_elem.name = "a" /\ pos_elem.href # None
                  THEN IF Contains(pos_elem.href[1], "/")
                       THEN LastSegment(pos_elem.href[1]) ELSE <<>>
                  ELSE <<>>

MWExamples(ex_sent) ==
    [i \in DOMAIN ex_sent |-> RemoveTags(clean_text(ex_sent[i]))]

\* a sub-sense whose unit never carries its letter
MWSubsenseWithoutLetter(word_type, sense_num, subsense) ==
    LET definition_text == IF subsense.dtText # None
                           THEN StripColon(clean_text(subsense.dtText[1]))
                           ELSE <<>>
    IN  IF definition_text # <<>>
        THEN <<[definition |-> definition_text,
                examples |-> MWExamples(subsense.ex_sent),
                pos |-> word_type]
               @@ (IF sense_num # <<>> THEN [sense_number |-> sense_num] ELSE NoFields)>>
        ELSE <<>>

\* one sub-sense (or the sense content of a sense without sub-senses)
MWSubsense(word_type, sense_num, subsense) ==
    LET letter_label == IF subsense.letter # None
                        THEN clean_text(subsense.letter[1]) ELSE <<>>
        definition_text == IF subsense.dtText # None
                           THEN StripColon(clean_text(subsense.dtText[1]))
                           ELSE <<>>
    IN  IF definition_text # <<>>
        THEN <<[definition |-> definition_text,
                examples |-> MWExamples(subsense.ex_sent),
                pos |-> word_type]
               @@ (IF sense_num # <<>> THEN [sense_number |-> sense_num] ELSE NoFields)
               @@ (IF letter_label # <<>> THEN [sense_letter |-> letter_label] ELSE NoFields)>>
        ELSE <<>>

RECURSIVE MWSubsenses(_, _, _)
MWSubsenses(word_type, sense_num, subsenses) ==
    IF subsenses = <<>> THEN <<>>
    ELSE MWSubsense(word_type, sense_num, Head(subsenses))
         \o MWSubsenses(word_type, sense_num, Tail(subsenses))

\* one .vg-sseq-entry-item
MWSenseItem(word_type, sense_item) ==
    LET sense_num == IF sense_item.label # None
                     THEN clean_text(sense_item.label[1]) ELSE <<>>
        subsenses == IF sense_item.subsenses # <<>> THEN sense_item.subsenses
                     ELSE sense_item.content
    IN  MWSubsenses(word_type, sense_num, subsenses)

RECURSIVE MWSenseItems(_, _)
MWSenseItems(word_type, items) ==
    IF items = <<>> THEN <<>>
    ELSE MWSenseItem(word_type, Head(items)) \o MWSenseItems(word_type, Tail(items))

RECURSIVE MWPrimary(_)
\* the definitions of the .vg blocks, in document order
MWPrimary(blocks) ==
    IF blocks = <<>> THEN <<>>
    ELSE MWSenseItems(MWWordType(Head(blocks)), Head(blocks).items)
         \o MWPrimary(Tail(blocks))

LegacyDefinition(section) ==
    LET definition_elem == IF section.dtText # None THEN section.dtText
                           ELSE section.dt
        definition ==
            IF definition_elem = None /\ Contains(section.text, ":")
            THEN clean_text(AfterFirst(section.text, ":"))
            ELSE IF definition_elem # None THEN clean_text(definition_elem[1])
            ELSE clean_text(section.text)
    IN  StripNumbering(definition)

LegacyExamples(section) ==
    LET elems == Take(section.examples, LegacyExampleCap)
    IN  [i \in DOMAIN elems |-> StripExamplePrefix(clean_text(elems[i]))]

RECURSIVE LegacySections(_, _)
LegacySections(word_type, sections) ==
    IF sections = <<>> THEN <<>>
    ELSE LET definition == LegacyDefinition(Head(sections))
         IN  (IF definition # <<>> /\ ~startswith(definition, <<EmDash>>)
              THEN <<[definition |-> definition,
                      examples |-> LegacyExamples(Head(sections)),
                      pos |-> word_type]>>
              ELSE <<>>)
             \o LegacySections(word_type, Tail(sections))

\* MerriamWebsterScraper._legacy_get_definition
legacy_get_definition(scraper, doc, word, url) ==
    IF doc.legacy_fault # None THEN Raise(doc.legacy_fault[1])
    ELSE LET word_type == IF doc.fl # None THEN clean_text(doc.fl[1]) ELSE <<>>
             def_sections == IF doc.div_sense # <<>> THEN doc.div_sense
                             ELSE doc.span_dt
         IN  Return([source |-> scraper.name,
                     word |-> word,
                     url |-> url,
                     definitions |-> LegacySections(word_type,
                                        Take(def_sections, LegacySectionCap))])

\* get_definition without the second fallback test (after the primary scan)
MWBodyWithoutSecondFallback(scraper, word, soup) ==
    IF soup = None THEN Return(FetchFailed(scraper))
    ELSE IF TreeFault(soup[1]) THEN Raise(soup[1].fault[1])
    ELSE LET doc == soup[1]
             url == Url(scraper, word)
         IN  IF doc.vg = <<>> THEN legacy_get_definition(scraper, doc, word, url)
             ELSE Return([source |-> scraper.name,
                          word |-> word,
                          url |-> url,
                          definitions |-> MWPrimary(doc.vg)])

MWBody(scraper, word, soup) ==
    IF soup = None THEN Return(FetchFailed(scraper))
    ELSE IF TreeFault(soup[1]) THEN Raise(soup[1].fault[1])
    ELSE LET doc == soup[1]
             url == Url(scraper, word)
             definitions == MWPrimary(doc.vg)
         IN  IF doc.vg = <<>> THEN legacy_get_definition(scraper, doc, word, url)
             ELSE IF definitions = <<>>
                  THEN legacy_get_definition(scraper, doc, word, url)
             ELSE Return([source |-> scraper.name,
                          word |-> word,
                          url |-> url,
                          definitions |-> definitions])

----------------------------------------------------------------------------
(* Longman: LongmanDictionaryScraper.get_definition *)

\* dict[key] = value
Put(d, key, value) ==
    [k \in DOMAIN d \cup {key} |-> IF k = key THEN value ELSE d[k]]

RECURSIVE NodeText(_)
\* element.text: the text of the pieces of an element, in document order
NodeText(pieces) ==
    IF pieces = <<>> THEN <<>>
    ELSE Head(pieces).text \o NodeText(Tail(pieces))

\* the pieces left after decompose() of every piece of the given kinds
Decompose(pieces, kinds) ==
    SelectSeq(pieces, LAMBDA p : p.kind \notin kinds)

RECURSIVE FamScan(_, _, _)
\* the loop over fam.children: fam_items after the scan
FamScan(children, fam_items, current_pos) ==
    IF children = <<>> THEN fam_items
    ELSE LET elem == Head(children)
         IN  IF elem.kind = "pos"
             THEN LET pos == clean_text(elem.text)
                  IN  FamScan(Tail(children),
                              IF pos \in DOMAIN fam_items THEN fam_items
                              ELSE Put(fam_items, pos, <<>>),
                              Some(pos))
             ELSE IF elem.kind \in {"w", "crossRef"}
             THEN IF current_pos # None /\ current_pos[1] # <<>>
                     /\ strip(elem.text) # <<>>
                  THEN FamScan(Tail(children),
                               Put(fam_items, current_pos[1],
                                   Append(fam_items[current_pos[1]],
                                          clean_text(elem.text))),
                               current_pos)
                  ELSE FamScan(Tail(children), fam_items, current_pos)
             ELSE FamScan(Tail(children), fam_items, current_pos)

RECURSIVE WordFamily(_, _)
\* fam_items after every .wordfams block; current_pos starts at None in each
WordFamily(word_fams, fam_items) ==
    IF word_fams = <<>> THEN fam_items
    ELSE WordFamily(Tail(word_fams), FamScan(Head(word_fams), fam_items, None))

\* the text of an .EXAMPLE once its speaker icons are removed
LongExample(example) == clean_text(NodeText(Decompose(example, {"speaker"})))

LongExamples(examples) == [i \in DOMAIN examples |-> LongExample(examples[i])]

RECURSIVE SenseExamples(_)
\* sense.select(".EXAMPLE"): the examples of the sense and of the pattern and
\* collocation sections inside it, in document order
SenseExamples(children) ==
    IF children = <<>> THEN <<>>
    ELSE (IF Head(children).kind = "EXAMPLE" THEN <<Head(children).pieces>>
          ELSE Head(children).examples)
         \o SenseExamples(Tail(children))

RECURSIVE Patterns(_)
Patterns(children) ==
    IF children = <<>> THEN <<>>
    ELSE LET c == Head(children)
         IN  (IF c.kind = "GramExa" /\ c.PROPFORM # None
              THEN <<[pattern |-> clean_text(c.PROPFORM[1])]
                     @@ (IF c.examples # <<>>
                         THEN [examples |-> LongExamples(c.examples)]
                         ELSE NoFields)>>
              ELSE <<>>)
             \o Patterns(Tail(children))

\* re.sub(r'^\s*\(\s*=\s*|\s*\)\s*$', '', s)
StripGloss(s) ==
    LET a == LStrip(s)
        b == IF a # <<>> /\ Head(a) = "(" THEN LStrip(Tail(a)) ELSE <<>>
        opened == IF b # <<>> /\ Head(b) = "=" THEN LStrip(Tail(b)) ELSE s
        r == RStrip(opened)
    IN  IF r # <<>> /\ r[Len(r)] = ")"
        THEN RStrip(SubSeq(r, 1, Len(r) - 1)) ELSE opened

RECURSIVE Collocations(_)
Collocations(children) ==
    IF children = <<>> THEN <<>>
    ELSE LET c == Head(children)
             gloss_text == IF c.kind = "ColloExa" /\ c.GLOSS # None
                           THEN StripGloss(clean_text(c.GLOSS[1])) ELSE <<>>
         IN  (IF c.kind = "ColloExa" /\ c.COLLO # None
              THEN <<[phrase |-> clean_text(c.COLLO[1])]
                     @@ (IF gloss_text # <<>>
                         THEN [meaning |-> gloss_text] ELSE NoFields)
                     @@ (IF c.examples # <<>>
                         THEN [examples |-> LongExamples(c.examples)]
                         ELSE NoFields)>>
              ELSE <<>>)
             \o Collocations(Tail(children))

\* the fields set only under `if definition_elem:`
SenseDefinition(sense) ==
    IF sense.Def = None THEN NoFields
    ELSE LET patterns == Patterns(sense.children)
             collocations == Collocations(sense.children)
         IN  [definition |-> clean_text(NodeText(sense.Def[1])),
              examples |-> LongExamples(SenseExamples(sense.children))]
             @@ (IF patterns # <<>>
                 THEN [grammatical_patterns |-> patterns] ELSE NoFields)
             @@ (IF collocations # <<>>
                 THEN [collocations |-> collocations] ELSE NoFields)

SenseRelated(sense) ==
    LET related_word == IF sense.RELATEDWD = None THEN <<>>
                        ELSE clean_text(strip(Remove(sense.RELATEDWD[1],
                                                     <<RightArrow>>)))
    IN  IF related_word # <<>> THEN [related_word |-> related_word] ELSE NoFields

SenseThesaurus(sense) ==
    LET thes_ref == IF sense.Thesref = None \/ sense.Thesref[1] = None THEN <<>>
                    ELSE clean_text(sense.Thesref[1][1])
    IN  IF thes_ref # <<>> THEN [thesaurus_ref |-> thes_ref] ELSE NoFields

\* sense_def for one .Sense block
SenseDef(entry_pos, sense_idx, sense) ==
    [sense_number |-> sense_idx, pos |-> entry_pos]
    @@ (IF sense.GRAM # None
        THEN [grammar |-> clean_text(Remove(Remove(sense.GRAM[1], <<"[">>), <<"]">>))]
        ELSE NoFields)
    @@ SenseDefinition(sense)
    @@ SenseRelated(sense)
    @@ SenseThesaurus(sense)

\* the senses numbered by their position among the units emitted
SensesNumberedByUnit(entry_pos, sense_blocks, sense_idx) ==
    LET kept == SelectSeq(sense_blocks, LAMBDA sense : sense.Def # None)
    IN  [i \in DOMAIN kept |-> SenseDef(entry_pos, i, kept[i])]

RECURSIVE Senses(_, _, _)
\* enumerate(sense_blocks, 1)
Senses(entry_pos, sense_blocks, sense_idx) ==
    IF sense_idx > Len(sense_blocks) THEN <<>>
    ELSE LET sense_def == SenseDef(entry_pos, sense_idx, sense_blocks[sense_idx])
         IN  (IF "definition" \in DOMAIN sense_def THEN <<sense_def>> ELSE <<>>)
             \o Senses(entry_pos, sense_blocks, sense_idx + 1)

EntryPos(entry) == IF entry.POS # None THEN clean_text(entry.POS[1]) ELSE <<>>

RECURSIVE LongEntries(_)
LongEntries(entry_sections) ==
    IF entry_sections = <<>> THEN <<>>
    ELSE Senses(EntryPos(Head(entry_sections)), Head(entry_sections).Sense, 1)
         \o LongEntries(Tail(entry_sections))

\* headword_info as the loop over the entries leaves it: the last entry's
HeadwordInfo(entry) ==
    (IF entry.PRON # None
     THEN [pronunciation |-> clean_text(entry.PRON[1])] ELSE NoFields)
    @@ (IF entry.FREQ # <<>>
        THEN [frequency |-> [i \in DOMAIN entry.FREQ |->
                               clean_text(IF entry.FREQ[i] # None
                                          THEN entry.FREQ[i][1] ELSE <<>>)]]
        ELSE NoFields)
    @@ (IF entry.POS # None THEN [pos |-> EntryPos(entry)] ELSE NoFields)

\* the text of one corpus example
CorpusExample(example) ==
    LET kept == Decompose(example, {"neutral"})
        marked == [i \in DOMAIN kept |->
                     IF kept[i].kind = "NodeW" /\ kept[i].simple /\ kept[i].text # <<>>
                     THEN [kept[i] EXCEPT !.text = <<"[">> \o @ \o <<"]">>]
                     ELSE kept[i]]
    IN  clean_text(NodeText(marked))

RECURSIVE CorpusExamples(_)
CorpusExamples(corpus_sections) ==
    IF corpus_sections = <<>> THEN <<>>
    ELSE LET section == Head(corpus_sections)
         IN  (IF section.title # None /\ section.exa # <<>>
              THEN <<[title |-> clean_text(section.title[1]),
                      examples |-> [i \in DOMAIN section.exa |->
                                      CorpusExample(section.exa[i])]]>>
              ELSE <<>>)
             \o CorpusExamples(Tail(corpus_sections))

RECURSIVE VerbForms(_, _)
VerbForms(rows, verb_forms) ==
    IF rows = <<>> THEN verb_forms
    ELSE LET row == Head(rows)
             form_name == IF row.th # None THEN clean_text(row.th[1]) ELSE <<>>
             form_value == IF row.td # None THEN clean_text(row.td[1]) ELSE <<>>
         IN  VerbForms(Tail(rows),
                       IF row.th # None /\ row.td # None
                          /\ form_name # <<>> /\ form_value # <<>>
                       THEN Put(verb_forms, form_name, form_value)
                       ELSE verb_forms)

\* line 561 reads headword_info, which only the body of the loop over the
\* .dictentry sections assigns
UnboundHeadwordInfo ==
    Exception("UnboundLocalError",
              "cannot access local variable 'headword_info' where it is not associated with a value",
              561)

LongBody(scraper, word, soup) ==
    IF soup = None THEN Return(FetchFailed(scraper))
    ELSE IF TreeFault(soup[1]) THEN Raise(soup[1].fault[1])
    ELSE LET doc == soup[1]
             word_family == WordFamily(doc.wordfams, NoFields)
             corpus_examples == CorpusExamples(doc.exaGroup)
             verb_forms == IF doc.verbTable = None THEN NoFields
                           ELSE VerbForms(doc.verbTable[1], NoFields)
         IN  IF doc.dictentry = <<>> THEN Raise(UnboundHeadwordInfo)
             ELSE Return(
                 [source |-> scraper.name,
                  word |-> word,
                  url |-> Url(scraper, word),
                  definitions |-> LongEntries(doc.dictentry)]
                 @@ (IF DOMAIN word_family # {}
                     THEN [word_family |-> word_family] ELSE NoFields)
                 @@ HeadwordInfo(doc.dictentry[Len(doc.dictentry)])
                 @@ (IF corpus_examples # <<>>
                     THEN [corpus_examples |-> corpus_examples] ELSE NoFields)
                 @@ (IF DOMAIN verb_forms # {}
                     THEN [verb_forms |-> verb_forms] ELSE NoFields))

\* the body of the try block of scraper.get_definition(word), from the point
\* where fetch_page has returned soup
extract_body(scraper, word, soup) ==
    CASE scraper.cls = "MerriamWebsterScraper" -> MWBody(scraper, word, soup)
      [] scraper.cls = "CambridgeDictionaryScraper" -> CamBody(scraper, word, soup)
      [] scraper.cls = "LongmanDictionaryScraper" -> LongBody(scraper, word, soup)

\* scraper.get_definition(word), once fetch_page has returned soup
get_definition(scraper, word, soup) ==
    TryExcept(scraper, extract_body(scraper, word, soup))

----------------------------------------------------------------------------
(* Pages: the documents the extractors are run on *)

MaxSections == 1

MaxItems == 2

\* the sequences over S of length at most n
BSeq(S, n) == UNION {[1..k -> S] : k \in 0..n}

\* the sequences of at most n sections whose last section is any of `last`
\* and whose earlier sections are among `earlier`, and the empty sequence
Sections(earlier, last, n) ==
    {<<>>} \cup {pre \o <<l>> : pre \in BSeq(earlier, n - 1), l \in last}

Blank == <<" ", "\n", " ">>

NoFault == [fault |-> None]

TreeError == Exception("AttributeError", "'NoneType' object has no attribute 'text'", 0)

(* Cambridge pages *)

CamBlockSet ==
    { [def |-> None,
       trans |-> Some(<<"c", "i">>),
       examps |-> <<>>],
      [def |-> Some(Blank),
       trans |-> Some(<<"c", "i">>),
       examps |-> <<>>],
      [def |-> Some(<<" ", "a", " ", " ", "t", "r", "i", "a", "l", " ">>),
       trans |-> None,
       examps |-> <<[eg |-> Some(<<"a", " ", "t", "e", "s", "t">>), text |-> <<"a", " ", "t", "e", "s", "t", " ", "y", "i", " ", "g", "e">>]>>],
      [def |-> Some(<<"t", "o", " ", "t", "r", "y">>),
       trans |-> Some(<<" ", "s", "h", "i", " ", "y", "a", "n", " ">>),
       examps |-> <<[eg |-> None, text |-> <<"t", "r", "y", " ", "i", "t">>]>>],
      [def |-> Some(<<"a", "n", " ", "e", "x", "a", "m">>),
       trans |-> Some(Blank),
       examps |-> <<>>] }

CamEntrySet ==
    [pos : {None, Some(<<"n", "o", "u", "n">>)}, blocks : BSeq(CamBlockSet, MaxItems)]

CamGoodEntry ==
    [pos |-> Some(<<"n", "o", "u", "n">>),
     blocks |-> <<[def |-> Some(<<"t", "o", " ", "t", "r", "y">>), trans |-> Some(<<"s", "h", "i", " ", "y", "a", "n">>),
                   examps |-> <<>>]>>]

CamPages ==
    {NoFault @@ [entries |-> e] :
        e \in Sections({CamGoodEntry, [pos |-> None, blocks |-> <<>>]},
                       CamEntrySet, MaxSections)}

CamEmptyPage == NoFault @@ [entries |-> <<>>]

\* pages with three entries of six def-blocks, each block with four examples:
\* one with a definition in every block, one whose second block has none
CamOverfullPages ==
    LET digit == <<"1", "2", "3", "4", "5", "6">>
        examps(e, b) == [x \in 1..4 |->
                            [eg |-> IF x = 2 THEN Some(<<"g", digit[x]>>) ELSE None,
                             text |-> <<"x", digit[e], digit[b], digit[x]>>]]
        block(e, b, gap) ==
            [def |-> IF b = gap THEN None ELSE Some(<<"d", digit[e], digit[b]>>),
             trans |-> None,
             examps |-> examps(e, b)]
        entry(e, gap) == [pos |-> Some(<<"p", digit[e]>>),
                          blocks |-> [b \in 1..6 |-> block(e, b, gap)]]
    IN  {NoFault @@ [entries |-> [e \in 1..3 |-> entry(e, gap)]] : gap \in {0, 2}}

CamGoodPage == NoFault @@ [entries |-> <<CamGoodEntry>>]

CamFaultPage == [CamGoodPage EXCEPT !.fault = Some(TreeError)]

(* Merriam-Webster pages *)

MWPlainSense ==
    [letter |-> None, dtText |-> Some(<<":", " ", "t", "o", " ", "t", "r", "y">>), ex_sent |-> <<>>]

MWLetteredItem ==
    [label |-> Some(<<"1">>),
     subsenses |-> <<[letter |-> Some(<<"a">>), dtText |-> Some(<<":", " ", "a", " ", " ", "t", "r", "i", "a", "l">>),
                      ex_sent |-> <<<<"p", "u", "t", " ", "i", "t", " ", "t", "o", " ", "t", "h", "e", " ", "<", "e", "m", ">", " ", "t", "e", "s", "t">>>>],
                     [letter |-> Some(<<"b">>), dtText |-> Some(<<":", " ", "a", "n", " ", "e", "x", "a", "m">>),
                      ex_sent |-> <<>>]>>,
     content |-> None]

MWPlainItem ==
    [label |-> Some(<<"2">>), subsenses |-> <<>>, content |-> Some(MWPlainSense)]

MWItemSet ==
    { MWLetteredItem,
      MWPlainItem,
      [label |-> None, subsenses |-> <<>>, content |-> None],
      [label |-> Some(<<"3">>),
       subsenses |-> <<[letter |-> None, dtText |-> Some(<<":", " ", " ">>), ex_sent |-> <<>>],
                       [letter |-> Some(<<"c">>), dtText |-> None,
                        ex_sent |-> <<<<"u", "n", "u", "s", "e", "d">>>>]>>,
       content |-> Some(MWPlainSense)] }

MWPosElemSet ==
    { None,
      Some([text |-> <<"n", "o", "u", "n">>, name |-> "span", href |-> None]),
      Some([text |-> <<" ", "v", "e", "r", "b", " ">>, name |-> "span", href |-> None]),
      Some([text |-> <<"t", "r", "a", "n", "s", "i", "t", "i", "v", "e", " ", "v", "e", "r", "b">>, name |-> "a",
            href |-> Some(<<"/", "d", "i", "c", "t", "i", "o", "n", "a", "r", "y", "/", "t", "r", "a", "n", "s", "i", "t", "i", "v", "e">>)]),
      Some([text |-> <<>>, name |-> "a", href |-> Some(<<"/", "d", "i", "c", "t", "i", "o", "n", "a", "r", "y", "/", "a", "d", "v", "e", "r", "b">>)]) }

\* one part-of-speech block: sense 1 with sub-senses a and b, and a plain sense 2
MWGoodBlock ==
    [pos_elem |-> Some([text |-> <<"n", "o", "u", "n">>, name |-> "span", href |-> None]),
     items |-> <<MWLetteredItem, MWPlainItem>>]

MWBlockSet ==
    {[pos_elem |-> p, items |-> <<MWPlainItem>>] : p \in MWPosElemSet}
    \cup {[pos_elem |-> Some([text |-> <<"n", "o", "u", "n">>, name |-> "span", href |-> None]),
           items |-> it] : it \in BSeq(MWItemSet, MaxItems)}

LegacySectionSet ==
    { [dtText |-> Some(<<":", " ", "a", " ", "t", "r", "i", "a", "l">>), dt |-> None, text |-> <<"1", " ", ":", " ", "a", " ", "t", "r", "i", "a", "l">>,
       examples |-> <<<<"E", "x", "a", "m", "p", "l", "e", ":", " ", "t", "r", "y", " ", "i", "t">>, <<"e", "2">>, <<"e", "3">>, <<"e", "4">>>>],
      [dtText |-> None, dt |-> None, text |-> <<" ", "2", " ", ":", " ", "t", "o", " ", "t", "r", "y", " ">>, examples |-> <<>>],
      [dtText |-> None, dt |-> Some(<<"3", ")", " ", "a", "n", " ", "e", "x", "a", "m">>), text |-> <<"3", ")", " ", "a", "n", " ", "e", "x", "a", "m">>,
       examples |-> <<>>],
      [dtText |-> None, dt |-> None, text |-> <<EmDash>> \o <<" ", "s", "e", "e", " ", "q", "u", "i", "z">>,
       examples |-> <<>>],
      [dtText |-> Some(<<" ", "1", "2", ".", " ">>), dt |-> None, text |-> <<" ", "1", "2", ".", " ">>, examples |-> <<>>],
      [dtText |-> None, dt |-> None, text |-> Blank, examples |-> <<>>],
      [dtText |-> None, dt |-> Some(<<"1", ".", " ", "2", ".", " ", "a", " ", "q", "u", "i", "z">>),
       text |-> <<"1", ".", " ", "2", ".", " ", "a", " ", "q", "u", "i", "z">>,
       examples |-> <<<<"E", "x", "a", "m", "p", "l", "e", ":", " ", "e", "x", "a", "m", "p", "l", "e", ".", " ", "o", "n", "e">>>>] }

MWNoLegacy == [fl |-> None, div_sense |-> <<>>, span_dt |-> <<>>, legacy_fault |-> None]

MWOneLegacy ==
    [fl |-> Some(<<"n", "o", "u", "n">>),
     div_sense |-> <<[dtText |-> Some(<<":", " ", "a", " ", "t", "r", "i", "a", "l">>), dt |-> None,
                      text |-> <<"1", " ", ":", " ", "a", " ", "t", "r", "i", "a", "l">>, examples |-> <<>>]>>,
     span_dt |-> <<>>,
     legacy_fault |-> None]

\* pages that vary in the .vg blocks
MWPrimaryPages ==
    {NoFault @@ [vg |-> v] @@ l :
        v \in Sections({MWGoodBlock, [pos_elem |-> None, items |-> <<>>]},
                       MWBlockSet, MaxSections),
        l \in {MWNoLegacy, MWOneLegacy}}

\* pages that vary in what the legacy selectors match
MWLegacyPages ==
    {NoFault @@ [vg |-> v, fl |-> f, div_sense |-> d, span_dt |-> sd,
                 legacy_fault |-> None] :
        v \in {<<>>, <<[pos_elem |-> None, items |-> <<>>]>>},
        f \in {None, Some(<<"n", "o", "u", "n">>)},
        d \in BSeq(LegacySectionSet, MaxItems),
        sd \in {<<>>, <<[dtText |-> None, dt |-> None, text |-> <<" ", "2", " ", ":", " ", "t", "o", " ", "t", "r", "y", " ">>,
                        examples |-> <<>>]>>}}

MWPages == MWPrimaryPages \cup MWLegacyPages

MWEmptyPage == NoFault @@ [vg |-> <<>>] @@ MWNoLegacy

MWGoodPage == NoFault @@ [vg |-> <<MWGoodBlock>>] @@ MWNoLegacy

MWFaultPage == [MWGoodPage EXCEPT !.fault = Some(TreeError)]

MWLegacyFaultPage == [MWEmptyPage EXCEPT !.legacy_fault = Some(TreeError)]

\* a page with primary definitions on which the legacy scan, if run, raises
MWUnusedLegacyFaultPage == [MWGoodPage EXCEPT !.legacy_fault = Some(TreeError)]

(* Longman pages *)

LongPlainSense ==
    [GRAM |-> None,
     Def |-> Some(<<[kind |-> "text", text |-> <<"a", " ", "s", "e", "t", " ", "o", "f", " ">>],
                    [kind |-> "defRef", text |-> <<"q", "u", "e", "s", "t", "i", "o", "n", "s">>]>>),
     children |-> <<[kind |-> "EXAMPLE",
                     pieces |-> <<[kind |-> "speaker", text |-> <<"*">>],
                                  [kind |-> "text", text |-> <<" ", "S", "h", "e", " ", "p", "a", "s", "s", "e", "d", ".", " ">>]>>]>>,
     RELATEDWD |-> None,
     Thesref |-> None]

LongSenseSet ==
    { LongPlainSense,
      [GRAM |-> Some(<<"[", "t", "r", "a", "n", "s", "i", "t", "i", "v", "e", "]">>),
       Def |-> Some(<<[kind |-> "text", text |-> <<"t", "o", " ", "t", "r", "y">>]>>),
       children |-> <<[kind |-> "GramExa",
                       PROPFORM |-> Some(<<"t", "e", "s", "t", " ", " ", "s", "o", "m", "e", "t", "h", "i", "n", "g", " ", "o", "n">>),
                       examples |-> <<<<[kind |-> "text", text |-> <<"t", "e", "s", "t", " ", "i", "t", " ", "o", "n", " ", "m", "e">>]>>>>],
                      [kind |-> "ColloExa",
                       COLLO |-> Some(<<"t", "e", "s", "t", " ", "d", "r", "i", "v", "e">>),
                       GLOSS |-> Some(<<"(", "=", " ", "a", " ", "t", "r", "i", "a", "l", " ", ")">>),
                       examples |-> <<>>]>>,
       RELATEDWD |-> Some(<<RightArrow>> \o <<" ", "e", "x", "a", "m">>),
       Thesref |-> Some(Some(<<"e", "x", "a", "m">>))],
      [GRAM |-> None,
       Def |-> None,
       children |-> <<>>,
       RELATEDWD |-> Some(<<RightArrow>> \o <<" ", "q", "u", "i", "z">>),
       Thesref |-> None],
      [GRAM |-> None,
       Def |-> Some(<<[kind |-> "text", text |-> Blank]>>),
       children |-> <<>>,
       RELATEDWD |-> None,
       Thesref |-> None],
      [GRAM |-> Some(<<"[", " ", "]">>),
       Def |-> Some(<<[kind |-> "text", text |-> <<"a", "n", " ", "e", "x", "a", "m">>]>>),
       children |-> <<[kind |-> "GramExa", PROPFORM |-> None, examples |-> <<>>],
                      [kind |-> "ColloExa", COLLO |-> Some(<<"m", "o", "c", "k", " ", "e", "x", "a", "m">>),
                       GLOSS |-> Some(<<"(", ")">>), examples |-> <<>>],
                      [kind |-> "ColloExa", COLLO |-> None, GLOSS |-> None,
                       examples |-> <<>>]>>,
       RELATEDWD |-> Some(<<RightArrow>>),
       Thesref |-> Some(None)] }

LongHeaderSet ==
    { [PRON |-> None, FREQ |-> <<>>, POS |-> None],
      [PRON |-> Some(<<" ", "t", "e", "s", "t", " ">>), FREQ |-> <<Some(<<"T", "o", "p", " ", "1", "0", "0", "0">>), None>>,
       POS |-> Some(<<"n", "o", "u", "n">>)] }

LongGoodEntry ==
    [PRON |-> Some(<<"t", "e", "s", "t">>), FREQ |-> <<>>, POS |-> Some(<<"n", "o", "u", "n">>),
     Sense |-> <<LongPlainSense>>]

LongEntrySet ==
    {h @@ [Sense |-> ss] : h \in LongHeaderSet, ss \in BSeq(LongSenseSet, MaxItems)}

LongNoExtras == [wordfams |-> <<>>, exaGroup |-> <<>>, verbTable |-> None]

LongWordFamSet ==
    { <<>>,
      <<<<[kind |-> "w", text |-> <<"e", "a", "r", "l", "y">>],
          [kind |-> "pos", text |-> <<"(", "n", "o", "u", "n", ")">>],
          [kind |-> "string", text |-> <<" ">>],
          [kind |-> "w", text |-> <<"t", "e", "s", "t">>],
          [kind |-> "crossRef", text |-> <<"t", "e", "s", "t", "e", "r">>],
          [kind |-> "pos", text |-> <<"(", "v", "e", "r", "b", ")">>],
          [kind |-> "w", text |-> Blank]>>,
        <<[kind |-> "w", text |-> <<"s", "t", "r", "a", "y">>],
          [kind |-> "pos", text |-> <<"(", "n", "o", "u", "n", ")">>],
          [kind |-> "w", text |-> <<"t", "e", "s", "t", "i", "n", "g">>]>>>>,
      <<<<[kind |-> "pos", text |-> Blank],
          [kind |-> "w", text |-> <<"l", "o", "s", "t">>]>>>> }

LongExaGroupSet ==
    { <<>>,
      <<[title |-> Some(<<"E", "x", "a", "m", "p", "l", "e", "s", " ", "f", "r", "o", "m", " ", "t", "h", "e", " ", "C", "o", "r", "p", "u", "s">>),
         exa |-> <<<<[kind |-> "neutral", text |-> <<"*", " ">>, simple |-> TRUE],
                     [kind |-> "text", text |-> <<"a", " ">>, simple |-> TRUE],
                     [kind |-> "NodeW", text |-> <<"t", "e", "s", "t">>, simple |-> TRUE],
                     [kind |-> "defRef", text |-> <<" ", "r", "u", "n">>, simple |-> TRUE]>>>>],
        [title |-> None, exa |-> <<<<[kind |-> "text", text |-> <<"x">>, simple |-> TRUE]>>>>],
        [title |-> Some(<<"E", "m", "p", "t", "y", " ", "g", "r", "o", "u", "p">>), exa |-> <<>>]>> }

LongVerbTableSet ==
    { None,
      Some(<<[th |-> Some(<<"P", "r", "e", "s", "e", "n", "t">>), td |-> Some(<<"t", "e", "s", "t">>)],
             [th |-> Some(<<"P", "a", "s", "t">>), td |-> Some(Blank)],
             [th |-> None, td |-> Some(<<"t", "e", "s", "t", "e", "d">>)]>>),
      Some(<<>>) }

\* pages that vary in their entries and senses
LongEntryPages ==
    {NoFault @@ [dictentry |-> e] @@ LongNoExtras :
        e \in Sections({LongGoodEntry, [PRON |-> None, FREQ |-> <<>>, POS |-> None,
                                        Sense |-> <<>>]},
                       LongEntrySet, MaxSections)}

\* pages that vary in what surrounds the entries
LongExtrasPages ==
    {NoFault @@ [dictentry |-> e, wordfams |-> w, exaGroup |-> g, verbTable |-> v] :
        e \in {<<>>, <<[PRON |-> None, FREQ |-> <<>>, POS |-> None,
                       Sense |-> <<LongPlainSense>>]>>},
        w \in LongWordFamSet, g \in LongExaGroupSet, v \in LongVerbTableSet}

\* pages of two entries, with a sense lacking .DEF before or between the others
LongTwoEntryPages ==
    LET bare == CHOOSE sense \in LongSenseSet : sense.Def = None
        gram == CHOOSE sense \in LongSenseSet :
                    sense.GRAM # None /\ sense.Thesref = Some(None)
        head == CHOOSE h \in LongHeaderSet : h.POS # None
    IN  {NoFault @@ [dictentry |-> <<head @@ [Sense |-> first],
                                     head @@ [Sense |-> <<LongPlainSense, bare, gram>>]>>]
                 @@ LongNoExtras :
            first \in {<<bare, LongPlainSense>>, <<LongPlainSense, bare, gram>>}}

LongPages == LongEntryPages \cup LongExtrasPages \cup LongTwoEntryPages

LongEmptyPage == NoFault @@ [dictentry |-> <<>>] @@ LongNoExtras

LongGoodPage == NoFault @@ [dictentry |-> <<LongGoodEntry>>] @@ LongNoExtras

LongFaultPage == [LongGoodPage EXCEPT !.fault = Some(TreeError)]

----------------------------------------------------------------------------
(* What the network may answer to a request of one extractor *)

PagesOf(cls) ==
    CASE cls = "MerriamWebsterScraper" ->
           {MWEmptyPage, MWGoodPage, MWFaultPage, MWLegacyFaultPage}
      [] cls = "CambridgeDictionaryScraper" ->
           {CamEmptyPage, CamGoodPage, CamFaultPage}
      [] cls = "LongmanDictionaryScraper" ->
           {LongEmptyPage, LongGoodPage, LongFaultPage}

Responses(cls) ==
    {NetError}
    \cup {Response(st, ok, d) : st \in {200, 204, 404}, ok \in BOOLEAN, d \in PagesOf(cls)}

----------------------------------------------------------------------------
(* Aggregator: CombinedDictionaryScraper *)

\* self.scrapers after initialize()
InitialScrapers ==
    <<MerriamWebsterScraper, CambridgeDictionaryScraper("chinese"),
      LongmanDictionaryScraper>>

Task(scraper) ==
    [scraper |-> scraper, pc |-> "created", soup |-> None, outcome |-> None]

\* tasks = [scraper.get_definition(word) for scraper in self.scrapers]
Coroutines(configured) == [i \in DOMAIN configured |-> Task(configured[i])]

Done(task) == task.pc = "done"

Raised(task) == Done(task) /\ task.outcome[1].kind = "raise"

\* gather, were it to hand the results over in completion order
gather_as_completed(children, done_order) ==
    [i \in DOMAIN done_order |-> children[done_order[i]].outcome[1].value]

\* asyncio.gather(*tasks): the results of the children, taken in the order the
\* children were passed, whatever the order (done_order) they finished in
gather(children, done_order) ==
    [i \in DOMAIN children |-> children[i].outcome[1].value]

\* the awaiting coroutine resumes when a child has raised or all are done
Resumable(children) ==
    IF \E i \in DOMAIN children : Raised(children[i]) THEN TRUE
    ELSE \A i \in DOMAIN children : Done(children[i])

FirstRaised(children) ==
    children[CHOOSE i \in DOMAIN children : Raised(children[i])].outcome[1].exc

Timestamps == {"2025-04-07T13:24:00", "2025-04-07T13:24:30"}

\* the dict get_word_data returns
CombinedResult(word, timestamp, results) ==
    [word |-> word, timestamp |-> timestamp, sources |-> results]

----------------------------------------------------------------------------
(* Lookup worker: DictionaryWorker.run_async *)

Words == {"test", "combine"}

Languages == {"chinese", "japanese", "korean", "italian", "english"}

SourceIds ==
    { <<"m", "e", "r", "r", "i", "a", "m">>, <<"m", "e", "r", "r", "i", "a", "m", "-", "w", "e", "b", "s", "t", "e", "r">>, <<"m">>, <<"m", "w">>,
      <<"M", "W">>, <<"M", "e", "r", "r", "i", "a", "m", "-", "W", "e", "b", "s", "t", "e", "r">>,
      <<"l", "o", "n", "g", "m", "a", "n">>, <<"l">>, <<"L", "o", "n", "g", "m", "a", "n">>,
      <<"c", "a", "m", "b", "r", "i", "d", "g", "e">>, <<"c">>, <<"C", "a", "m", "b", "r", "i", "d", "g", "e">>,
      <<"z", "z">>, <<"L", "o", "n", "g", "m", "a", "n", " ", "D", "i", "c", "t", "i", "o", "n", "a", "r", "y">>, <<>> }

\* the calls the GUI makes (search_all with dictionary "all") and the
\* single-dictionary lookups with any identifier
Requests ==
    [word : Words, dictionary : {Some(<<"a", "l", "l">>)},
     language : {None} \cup {Some(l) : l \in Languages}, search_all : {TRUE}]
    \cup
    [word : Words, dictionary : {None} \cup {Some(d) : d \in SourceIds},
     language : {None} \cup {Some(l) : l \in Languages}, search_all : {FALSE}]

\* self.language or "chinese"
LanguageOf(r) == IF r.language = None THEN "chinese" ELSE r.language[1]

\* the chain without .lower()
SourceBranchCaseSensitive(dictionary) ==
    IF dictionary \in {<<"m", "e", "r", "r", "i", "a", "m">>, <<"m", "e", "r", "r", "i", "a", "m", "-", "w", "e", "b", "s", "t", "e", "r">>, <<"m">>, <<"m", "w">>}
    THEN "merriam"
    ELSE IF dictionary \in {<<"l", "o", "n", "g", "m", "a", "n">>, <<"l">>} THEN "longman"
    ELSE IF dictionary \in {<<"c", "a", "m", "b", "r", "i", "d", "g", "e">>, <<"c">>} THEN "cambridge"
    ELSE "none"

\* the chain with Cambridge as its final else
SourceBranchDefaultCambridge(dictionary) ==
    LET d == lower(dictionary)
    IN  IF d \in {<<"m", "e", "r", "r", "i", "a", "m">>, <<"m", "e", "r", "r", "i", "a", "m", "-", "w", "e", "b", "s", "t", "e", "r">>, <<"m">>, <<"m", "w">>}
        THEN "merriam"
        ELSE IF d \in {<<"l", "o", "n", "g", "m", "a", "n">>, <<"l">>} THEN "longman"
        ELSE "cambridge"

\* which branch of the if/elif chain on self.dictionary.lower() is taken
SourceBranch(dictionary) ==
    LET d == lower(dictionary)
    IN  IF d \in {<<"m", "e", "r", "r", "i", "a", "m">>, <<"m", "e", "r", "r", "i", "a", "m", "-", "w", "e", "b", "s", "t", "e", "r">>, <<"m">>, <<"m", "w">>}
        THEN "merriam"
        ELSE IF d \in {<<"l", "o", "n", "g", "m", "a", "n">>, <<"l">>} THEN "longman"
        ELSE IF d \in {<<"c", "a", "m", "b", "r", "i", "d", "g", "e">>, <<"c">>} THEN "cambridge"
        ELSE "none"

\* the scrapers of the list that are instances of cls, in list order
InstancesOf(configured, cls) == SelectSeq(configured, LAMBDA sc : sc.cls = cls)

\* search_all: the default Cambridge scraper is removed and one for the
\* selected language is appended
\* the Cambridge scraper appended without removing the default one
SearchAllScrapersKeepingDefault(configured, language) ==
    configured \o <<CambridgeDictionaryScraper(language)>>

SearchAllScrapers(configured, language) ==
    SelectSeq(configured, LAMBDA sc : sc.cls # "CambridgeDictionaryScraper")
    \o <<CambridgeDictionaryScraper(language)>>

Signal(sig, payload) == [sig |-> sig, payload |-> payload]

\* search_all: initialize, swap the Cambridge scraper, call get_word_data,
\* which awaits the gathered coroutines
StartSearchAll ==
    /\ wpc = "start"
    /\ req.search_all
    /\ session' = "open"
    /\ scrapers' = SearchAllScrapers(InitialScrapers, LanguageOf(req))
    /\ tasks' = Coroutines(IF scrapers' = <<>> THEN InitialScrapers ELSE scrapers')
    /\ wpc' = "gather"
    /\ UNCHANGED <<req, order, fetches, signals, probe, gui, workers, replaced>>

\* one dictionary: initialize, pick the scraper, await its get_definition
StartSingle ==
    /\ wpc = "start"
    /\ ~req.search_all
    /\ req.dictionary # None
    /\ LET branch == SourceBranch(req.dictionary[1])
           found == IF branch = "merriam"
                    THEN InstancesOf(InitialScrapers, "MerriamWebsterScraper")
                    ELSE IF branch = "longman"
                    THEN InstancesOf(InitialScrapers, "LongmanDictionaryScraper")
                    ELSE <<CambridgeDictionaryScraper(LanguageOf(req))>>
       IN  /\ branch # "none"
           /\ session' = "open"
           /\ scrapers' = InitialScrapers
           /\ IF found # <<>>
              THEN /\ tasks' = <<Task(found[1])>>
                   /\ wpc' = "single"
                   /\ signals' = signals
              ELSE /\ tasks' = tasks
                   /\ wpc' = "done"
                   /\ signals' = Append(signals,
                          Signal("error", <<IF branch = "merriam"
                                            THEN "Merriam-Webster scraper not found"
                                            ELSE "Longman Dictionary scraper not found">>))
    /\ UNCHANGED <<req, order, fetches, probe, gui, workers, replaced>>

\* one dictionary, no branch matches: error.emit(...) and return
StartUnknown ==
    /\ wpc = "start"
    /\ ~req.search_all
    /\ req.dictionary # None
    /\ SourceBranch(req.dictionary[1]) = "none"
    /\ session' = "open"
    /\ scrapers' = InitialScrapers
    /\ signals' = Append(signals,
           Signal("error", <<"Dictionary ", req.dictionary[1], " not found">>))
    /\ wpc' = "done"
    /\ UNCHANGED <<req, tasks, order, fetches, probe, gui, workers, replaced>>

\* one dictionary, self.dictionary is None: .lower() raises, the except
\* clause of run_async emits the error
StartNoDictionary ==
    /\ wpc = "start"
    /\ ~req.search_all
    /\ req.dictionary = None
    /\ session' = "open"
    /\ scrapers' = InitialScrapers
    /\ signals' = Append(signals,
           Signal("error", <<"'NoneType' object has no attribute 'lower'">>))
    /\ wpc' = "done"
    /\ UNCHANGED <<req, tasks, order, fetches, probe, gui, workers, replaced>>

\* a coroutine runs up to its request: the event loop starts them in order
TaskStart(i) ==
    /\ wpc \in {"gather", "single"}
    /\ tasks[i].pc = "created"
    /\ \A j \in 1..(i - 1) : tasks[j].pc # "created"
    /\ tasks' = [tasks EXCEPT ![i].pc = "fetching"]
    /\ fetches' = Append(fetches, Url(tasks[i].scraper, req.word))
    /\ UNCHANGED <<req, wpc, session, scrapers, order, signals, probe, gui, workers, replaced>>

\* get_definition, were it to send its request once more after a failed fetch
FetchDoneRetrying(i) ==
    /\ wpc \in {"gather", "single"}
    /\ tasks[i].pc = "fetching"
    /\ \E resp \in Responses(tasks[i].scraper.cls) :
          LET soup == fetch_page(resp)
          IN  IF soup = None /\ Len(fetches) <= Len(tasks)
              THEN /\ tasks' = [tasks EXCEPT ![i].pc = "created"]
                   /\ order' = order
              ELSE /\ tasks' = [tasks EXCEPT ![i] =
                              [scraper |-> tasks[i].scraper,
                               pc |-> "done",
                               soup |-> soup,
                               outcome |-> Some(get_definition(tasks[i].scraper,
                                                               req.word, soup))]]
                   /\ order' = Append(order, i)
    /\ UNCHANGED <<req, wpc, session, scrapers, fetches, signals, probe, gui, workers, replaced>>

\* the answer to a request arrives: fetch_page returns and the rest of
\* get_definition runs without suspending
FetchDone(i) ==
    /\ wpc \in {"gather", "single"}
    /\ tasks[i].pc = "fetching"
    /\ \E resp \in Responses(tasks[i].scraper.cls) :
          LET soup == fetch_page(resp)
          IN  tasks' = [tasks EXCEPT ![i] =
                          [scraper |-> tasks[i].scraper,
                           pc |-> "done",
                           soup |-> soup,
                           outcome |-> Some(get_definition(tasks[i].scraper,
                                                           req.word, soup))]]
    /\ order' = Append(order, i)
    /\ UNCHANGED <<req, wpc, session, scrapers, fetches, signals, probe, gui, workers, replaced>>

\* get_word_data, were it to return as soon as one coroutine is done
GatherFirstCompleted ==
    /\ wpc = "gather"
    /\ \E i \in DOMAIN tasks : Done(tasks[i])
    /\ \E now \in Timestamps :
          LET finished == SelectSeq(tasks, Done)
          IN  signals' = Append(signals,
                  Signal("finished",
                         CombinedResult(req.word, now,
                             [i \in DOMAIN finished |-> finished[i].outcome[1].value])))
    /\ session' = "closed"
    /\ wpc' = "done"
    /\ UNCHANGED <<req, scrapers, tasks, order, fetches, probe, gui, workers, replaced>>

\* gather resumes get_word_data, which returns; the worker closes the
\* session and emits finished - or, if a coroutine raised, the except clause
\* of run_async emits error
GatherDone ==
    /\ wpc = "gather"
    /\ Resumable(tasks)
    /\ \E now \in Timestamps :
          IF \E i \in DOMAIN tasks : Raised(tasks[i])
          THEN /\ signals' = Append(signals, Signal("error", <<FirstRaised(tasks).text>>))
               /\ session' = session
          ELSE /\ signals' = Append(signals,
                      Signal("finished",
                             CombinedResult(req.word, now, gather(tasks, order))))
               /\ session' = "closed"
    /\ wpc' = "done"
    /\ UNCHANGED <<req, scrapers, tasks, order, fetches, probe, gui, workers, replaced>>

\* the awaited get_definition returns; the worker closes the session and
\* emits finished - or, if it raised, the except clause emits error
SingleDone ==
    /\ wpc = "single"
    /\ Done(tasks[1])
    /\ IF Raised(tasks[1])
       THEN /\ signals' = Append(signals, Signal("error", <<tasks[1].outcome[1].exc.text>>))
            /\ session' = session
       ELSE /\ signals' = Append(signals, Signal("finished", tasks[1].outcome[1].value))
            /\ session' = "closed"
    /\ wpc' = "done"
    /\ UNCHANGED <<req, scrapers, tasks, order, fetches, probe, gui, workers, replaced>>

NoProbe == [pc |-> "none"]

\* the window after construction: no stored results, no word, the language
\* selector on its first item, no lookup started yet
NoGui ==
    [dictionary_data |-> [merriam |-> None, longman |-> None, cambridge |-> None],
     has_results |-> FALSE,
     current_word |-> None,
     lang |-> "chinese",
     searches |-> 0,
     requeries |-> 0]

Init ==
    /\ req \in Requests
    /\ wpc = "start"
    /\ session = "none"
    /\ scrapers = <<>>
    /\ tasks = <<>>
    /\ order = <<>>
    /\ fetches = <<>>
    /\ signals = <<>>
    /\ probe = NoProbe
    /\ gui = NoGui
    /\ workers = <<>>
    /\ replaced = <<>>

Next ==
    \/ StartSearchAll
    \/ StartSingle
    \/ StartUnknown
    \/ StartNoDictionary
    \/ \E i \in DOMAIN tasks : TaskStart(i)
    \/ \E i \in DOMAIN tasks : FetchDone(i)
    \/ GatherDone
    \/ SingleDone

Spec == Init /\ [][Next]_vars

----------------------------------------------------------------------------
(* One get_definition call on one fetched page *)

ProbeLanguages == Languages \cup {"french"}

ProbeInput(scraper, language, soup) ==
    [pc |-> "fetched", scraper |-> scraper, language |-> language,
     word |-> "test", soup |-> soup]

ProbeInputs ==
    {ProbeInput(MerriamWebsterScraper, None, sp) :
        sp \in {None} \cup {Some(pg) : pg \in MWPages \cup {MWFaultPage, MWLegacyFaultPage,
                                                        MWUnusedLegacyFaultPage}}}
    \cup
    {ProbeInput(CambridgeDictionaryScraper(l), Some(l), sp) :
        l \in ProbeLanguages,
        sp \in {None} \cup {Some(pg) : pg \in CamPages \cup CamOverfullPages
                                                \cup {CamFaultPage}}}
    \cup
    {ProbeInput(LongmanDictionaryScraper, None, sp) :
        sp \in {None} \cup {Some(pg) : pg \in LongPages \cup {LongFaultPage}}}

\* the rest of get_definition after fetch_page has returned
Extract ==
    /\ probe.pc = "fetched"
    /\ probe' = [pc |-> "done", scraper |-> probe.scraper,
                 language |-> probe.language, word |-> probe.word,
                 soup |-> probe.soup,
                 outcome |-> get_definition(probe.scraper, probe.word, probe.soup)]
    /\ UNCHANGED <<req, wpc, session, scrapers, tasks, order, fetches, signals, gui, workers, replaced>>

\* a second call whose definitions list outlives the first call
ExtractAgainAccumulating ==
    /\ probe.pc = "done"
    /\ LET first == probe.outcome
           second == get_definition(probe.scraper, probe.word, probe.soup)
       IN  probe' = [pc |-> "again",
                     outcome2 |->
                         IF /\ first.kind = "return" /\ second.kind = "return"
                            /\ "definitions" \in DOMAIN first.value
                            /\ "definitions" \in DOMAIN second.value
                         THEN Return([second.value EXCEPT !.definitions =
                                         first.value.definitions \o @])
                         ELSE second] @@ probe
    /\ UNCHANGED <<req, wpc, session, scrapers, tasks, order, fetches, signals, gui, workers, replaced>>

\* the same scraper object is called once more with the same word and the
\* remote document has not changed: fetch_page parses the same page anew, and
\* the locals of get_definition start empty
ExtractAgain ==
    /\ probe.pc = "done"
    /\ probe' = [pc |-> "again",
                 outcome2 |-> get_definition(probe.scraper, probe.word, probe.soup)]
                @@ probe
    /\ UNCHANGED <<req, wpc, session, scrapers, tasks, order, fetches, signals, gui, workers, replaced>>

NoRequest == [search_all |-> FALSE, dictionary |-> None, language |-> None, word |-> "test"]

InitExtract ==
    /\ probe \in ProbeInputs
    /\ req = NoRequest
    /\ wpc = "idle"
    /\ session = "none"
    /\ scrapers = <<>>
    /\ tasks = <<>>
    /\ order = <<>>
    /\ fetches = <<>>
    /\ signals = <<>>
    /\ gui = NoGui
    /\ workers = <<>>
    /\ replaced = <<>>

NextExtract == Extract \/ ExtractAgain

SpecExtract == InitExtract /\ [][NextExtract]_vars

\* One get_definition call from its request on: the scraper has sent its GET
\* and the network answers with resp
FetchInputs ==
    {[pc |-> "request", scraper |-> MerriamWebsterScraper, language |-> None,
      word |-> "test", resp |-> r] : r \in Responses("MerriamWebsterScraper")}
    \cup
    {[pc |-> "request", scraper |-> CambridgeDictionaryScraper(l), language |-> Some(l),
      word |-> "test", resp |-> r] :
        l \in ProbeLanguages, r \in Responses("CambridgeDictionaryScraper")}
    \cup
    {[pc |-> "request", scraper |-> LongmanDictionaryScraper, language |-> None,
      word |-> "test", resp |-> r] : r \in Responses("LongmanDictionaryScraper")}

\* soup = await self.fetch_page(url)
Fetch ==
    /\ probe.pc = "request"
    /\ probe' = [pc |-> "fetched", soup |-> fetch_page(probe.resp)] @@ probe
    /\ UNCHANGED <<req, wpc, session, scrapers, tasks, order, fetches, signals, gui, workers, replaced>>

InitFetch ==
    /\ probe \in FetchInputs
    /\ req = NoRequest
    /\ wpc = "idle"
    /\ session = "none"
    /\ scrapers = <<>>
    /\ tasks = <<>>
    /\ order = <<>>
    /\ fetches = <<>>
    /\ signals = <<>>
    /\ gui = NoGui
    /\ workers = <<>>
    /\ replaced = <<>>

NextFetch == Fetch \/ NextExtract

SpecFetch == InitFetch /\ [][NextFetch]_vars

----------------------------------------------------------------------------
(* One CombinedDictionaryScraper object, called through its public methods *)

MaxCalls == 2

\* what the requests of one get_word_data call come back with, seen from
\* get_definition: a session that is closed makes session.get raise, which
\* fetch_page turns into None
SoupsFor(configured, state) ==
    IF state = "closed" THEN {[i \in DOMAIN configured |-> "absent"]}
    ELSE [DOMAIN configured -> {"absent", "page"}]

SoupOf(scraper, choice) ==
    IF choice = "page"
    THEN Some(CASE scraper.cls = "MerriamWebsterScraper" -> MWGoodPage
                [] scraper.cls = "CambridgeDictionaryScraper" -> CamGoodPage
                [] scraper.cls = "LongmanDictionaryScraper" -> LongGoodPage)
    ELSE None

\* await scraper.initialize(): a new session, and scrapers that use it
AggInitialize ==
    /\ wpc = "api"
    /\ Len(replaced) < MaxCalls
    /\ session' = "open"
    /\ replaced' = IF session = "none" THEN replaced ELSE Append(replaced, session)
    /\ scrapers' = InitialScrapers
    /\ UNCHANGED <<req, wpc, tasks, order, fetches, signals, probe, gui, workers>>

\* await scraper.close(): closes self.session if there is one; self.scrapers
\* stays as it is
AggClose ==
    /\ wpc = "api"
    /\ session' = IF session = "none" THEN "none" ELSE "closed"
    /\ UNCHANGED <<req, wpc, scrapers, tasks, order, fetches, signals, probe, gui, workers, replaced>>

\* await scraper.get_word_data(word): initializes only if self.scrapers is
\* empty, then gathers one get_definition per scraper; each request is logged
\* with the state of the session it was sent on
AggGetWordData(word) ==
    /\ wpc = "api"
    /\ Len(signals) < MaxCalls
    /\ LET fresh == scrapers = <<>>
           state == IF fresh THEN "open" ELSE session
           configured == IF fresh THEN InitialScrapers ELSE scrapers
       IN  /\ session' = state
           /\ scrapers' = configured
           /\ fetches' = fetches \o [i \in DOMAIN configured |->
                              [url |-> Url(configured[i], word), session |-> state]]
           /\ \E soups \in SoupsFor(configured, state), now \in Timestamps :
                 signals' = Append(signals,
                     Signal("returned",
                         CombinedResult(word, now,
                             [i \in DOMAIN configured |->
                                 get_definition(configured[i], word,
                                     SoupOf(configured[i], soups[i])).value])))
    /\ UNCHANGED <<req, wpc, tasks, order, probe, gui, workers, replaced>>

InitAggregator ==
    /\ req = NoRequest
    /\ wpc = "api"
    /\ session = "none"
    /\ scrapers = <<>>
    /\ tasks = <<>>
    /\ order = <<>>
    /\ fetches = <<>>
    /\ signals = <<>>
    /\ probe = NoProbe
    /\ gui = NoGui
    /\ workers = <<>>
    /\ replaced = <<>>

NextAggregator ==
    \/ AggInitialize
    \/ AggClose
    \/ \E word \in Words : AggGetWordData(word)

SpecAggregator == InitAggregator /\ [][NextAggregator]_vars

----------------------------------------------------------------------------
(* The window: DictionaryApp *)

MaxSearches == 1

MaxRequeries == 2

\* search_all_dictionaries: a worker for all dictionaries is started with the
\* word of the input field and the language of the selector
GuiSearchAll ==
    /\ wpc = "idle"
    /\ gui.searches < MaxSearches
    /\ \E word \in {"test"} :    \* word_input.text().strip(), not empty
          /\ gui' = [gui EXCEPT !.current_word = Some(word), !.searches = @ + 1]
          /\ req' = [word |-> word, dictionary |-> Some(<<"a", "l", "l">>),
                     language |-> Some(gui.lang), search_all |-> TRUE]
    /\ wpc' = "start"
    /\ session' = "none"
    /\ scrapers' = <<>>
    /\ tasks' = <<>>
    /\ order' = <<>>
    /\ fetches' = <<>>
    /\ signals' = <<>>
    /\ UNCHANGED <<probe, workers, replaced>>

\* on_language_changed: with results and a word, search_cambridge_only starts
\* a worker for "cambridge" with the new language; otherwise nothing more
GuiLanguageChanged(l) ==
    /\ wpc = "idle"
    /\ l # gui.lang
    /\ IF gui.has_results /\ gui.current_word # None
       THEN /\ gui.requeries < MaxRequeries
            /\ gui' = [gui EXCEPT !.lang = l, !.requeries = @ + 1]
            /\ req' = [word |-> gui.current_word[1],
                       dictionary |-> Some(<<"c", "a", "m", "b", "r", "i", "d", "g", "e">>),
                       language |-> Some(l), search_all |-> FALSE]
            /\ wpc' = "start"
            /\ session' = "none"
            /\ scrapers' = <<>>
            /\ tasks' = <<>>
            /\ order' = <<>>
            /\ fetches' = <<>>
            /\ signals' = <<>>
       ELSE /\ gui' = [gui EXCEPT !.lang = l]
            /\ UNCHANGED <<req, wpc, session, scrapers, tasks, order, fetches, signals, replaced>>
    /\ UNCHANGED <<probe, workers, replaced>>

\* process_all_results: every source is stored under the key its name
\* selects, and has_results is set
GuiProcessAll ==
    /\ wpc = "done"
    /\ req.search_all
    /\ signals # <<>> /\ signals[1].sig = "finished"
    /\ LET sources == signals[1].payload.sources
           KeyOf(name) ==
               IF name = "Merriam-Webster" THEN "merriam"
               ELSE IF name = "Longman Dictionary" THEN "longman"
               ELSE "cambridge"
           Stored(key, old) ==
               LET hits == {i \in DOMAIN sources : KeyOf(sources[i].source) = key}
               IN  IF hits = {} THEN old
                   ELSE Some(sources[CHOOSE i \in hits : \A j \in hits : j <= i])
       IN  gui' = [gui EXCEPT
                      !.dictionary_data =
                          [merriam |-> Stored("merriam", @.merriam),
                           longman |-> Stored("longman", @.longman),
                           cambridge |-> Stored("cambridge", @.cambridge)],
                      !.has_results = TRUE]
    /\ wpc' = "idle"
    /\ UNCHANGED <<req, session, scrapers, tasks, order, fetches, signals, probe, workers, replaced>>

\* process_cambridge_results, were it to start from an empty store
GuiProcessCambridgeResetting ==
    /\ wpc = "done"
    /\ ~req.search_all
    /\ signals # <<>> /\ signals[1].sig = "finished"
    /\ gui' = [gui EXCEPT !.dictionary_data =
                   [merriam |-> None, longman |-> None,
                    cambridge |-> Some(signals[1].payload)]]
    /\ wpc' = "idle"
    /\ UNCHANGED <<req, session, scrapers, tasks, order, fetches, signals, probe, workers, replaced>>

\* process_cambridge_results: the result is stored under "cambridge"
GuiProcessCambridge ==
    /\ wpc = "done"
    /\ ~req.search_all
    /\ signals # <<>> /\ signals[1].sig = "finished"
    /\ gui' = [gui EXCEPT !.dictionary_data.cambridge = Some(signals[1].payload)]
    /\ wpc' = "idle"
    /\ UNCHANGED <<req, session, scrapers, tasks, order, fetches, signals, probe, workers, replaced>>

InitGui ==
    /\ req = NoRequest
    /\ wpc = "idle"
    /\ session = "none"
    /\ scrapers = <<>>
    /\ tasks = <<>>
    /\ order = <<>>
    /\ fetches = <<>>
    /\ signals = <<>>
    /\ probe = NoProbe
    /\ gui = NoGui
    /\ workers = <<>>
    /\ replaced = <<>>

NextGui ==
    \/ GuiSearchAll
    \/ \E l \in Languages : GuiLanguageChanged(l)
    \/ GuiProcessAll
    \/ GuiProcessCambridge
    \/ StartSearchAll
    \/ StartSingle
    \/ \E i \in DOMAIN tasks : TaskStart(i)
    \/ \E i \in DOMAIN tasks : FetchDone(i)
    \/ GatherDone
    \/ SingleDone

SpecGui == InitGui /\ [][NextGui]_vars

\* lookups by the worker and single extractor calls, side by side
SpecAll == (Init \/ InitExtract) /\ [][Next \/ NextExtract]_vars

----------------------------------------------------------------------------
(* The window and the worker threads it starts, several at a time *)

MaxWorkers == 2

\* self.worker = DictionaryWorker(...); self.thread = QThread(); thread.start()
Worker(word, dictionary, language, search_all) ==
    [word |-> word, dictionary |-> dictionary, language |-> language,
     search_all |-> search_all, emitted |-> None, thread |-> "running"]

\* the page a lookup of the race finds for an extractor
FoundPage(cls) ==
    CASE cls = "MerriamWebsterScraper" -> MWGoodPage
      [] cls = "CambridgeDictionaryScraper" -> CamGoodPage
      [] cls = "LongmanDictionaryScraper" -> LongGoodPage

\* what run_async of the worker hands to finished.emit
WorkerResult(w, now) ==
    LET entry(scraper) == get_definition(scraper, w.word,
                                         Some(FoundPage(scraper.cls))).value
    IN  IF w.search_all
        THEN LET configured == SearchAllScrapers(InitialScrapers, w.language)
             IN  CombinedResult(w.word, now,
                                [i \in DOMAIN configured |-> entry(configured[i])])
        ELSE entry(CambridgeDictionaryScraper(w.language))

\* search_all_dictionaries, whatever earlier workers are still running
RaceSearchAll(word) ==
    /\ Len(workers) < MaxWorkers
    /\ gui' = [gui EXCEPT !.current_word = Some(word)]
    /\ workers' = Append(workers, Worker(word, <<"a", "l", "l">>, gui.lang, TRUE))
    /\ UNCHANGED <<req, wpc, session, scrapers, tasks, order, fetches, signals, probe, replaced>>

\* on_language_changed: with results on display, search_cambridge_only
RaceLanguageChanged(l) ==
    /\ l # gui.lang
    /\ gui' = [gui EXCEPT !.lang = l]
    /\ IF gui.has_results /\ gui.current_word # None
       THEN /\ Len(workers) < MaxWorkers
            /\ workers' = Append(workers,
                                 Worker(gui.current_word[1],
                                        <<"c", "a", "m", "b", "r", "i", "d", "g", "e">>,
                                        l, FALSE))
       ELSE workers' = workers
    /\ UNCHANGED <<req, wpc, session, scrapers, tasks, order, fetches, signals, probe, replaced>>

\* run_async reaches self.finished.emit(result); the signal is queued for
\* the window's thread
WorkerFinished(i) ==
    /\ workers[i].emitted = None
    /\ \E now \in Timestamps :
          signals' = Append(signals,
                            Signal("finished", WorkerResult(workers[i], now))
                            @@ [worker |-> i])
    /\ workers' = [workers EXCEPT ![i].emitted = Some("finished")]
    /\ UNCHANGED <<req, wpc, session, scrapers, tasks, order, fetches, probe, gui, replaced>>

\* run_async ends in its except clause, for an exception raised outside the
\* extractors (by initialize or close): self.error.emit(str(e))
WorkerError(i) ==
    /\ workers[i].emitted = None
    /\ signals' = Append(signals, Signal("error", <<"[Errno 24] Too many open files">>)
                                  @@ [worker |-> i])
    /\ workers' = [workers EXCEPT ![i].emitted = Some("error")]
    /\ UNCHANGED <<req, wpc, session, scrapers, tasks, order, fetches, probe, gui, replaced>>

\* process_all_results on a dict with "sources"
ProcessAllResults(data, result) ==
    LET sources == result.sources
        KeyOf(name) ==
            IF name = "Merriam-Webster" THEN "merriam"
            ELSE IF name = "Longman Dictionary" THEN "longman"
            ELSE "cambridge"
        Stored(key, old) ==
            LET hits == {i \in DOMAIN sources : KeyOf(sources[i].source) = key}
            IN  IF hits = {} THEN old
                ELSE Some(sources[CHOOSE i \in hits : \A j \in hits : j <= i])
    IN  [merriam |-> Stored("merriam", data.merriam),
         longman |-> Stored("longman", data.longman),
         cambridge |-> Stored("cambridge", data.cambridge)]

\* the window's event loop runs the slots connected to the oldest queued
\* signal: finished is connected to the worker's process_ slot and to
\* thread.quit, error to show_error only
SlotsRun ==
    /\ signals # <<>>
    /\ LET sg == Head(signals)
           w == workers[sg.worker]
       IN  IF sg.sig = "finished"
           THEN /\ gui' = IF w.search_all
                          THEN [gui EXCEPT
                                   !.dictionary_data = ProcessAllResults(@, sg.payload),
                                   !.has_results = TRUE]
                          ELSE [gui EXCEPT
                                   !.dictionary_data.cambridge = Some(sg.payload)]
                /\ workers' = [workers EXCEPT ![sg.worker].thread = "stopped"]
           ELSE /\ gui' = gui
                /\ workers' = workers
    /\ signals' = Tail(signals)
    /\ UNCHANGED <<req, wpc, session, scrapers, tasks, order, fetches, probe, replaced>>

InitRace ==
    /\ req = NoRequest
    /\ wpc = "idle"
    /\ session = "none"
    /\ scrapers = <<>>
    /\ tasks = <<>>
    /\ order = <<>>
    /\ fetches = <<>>
    /\ signals = <<>>
    /\ probe = NoProbe
    /\ gui = NoGui
    /\ workers = <<>>
    /\ replaced = <<>>

NextRace ==
    \/ \E word \in Words : RaceSearchAll(word)
    \/ \E l \in Languages : RaceLanguageChanged(l)
    \/ \E i \in DOMAIN workers : WorkerFinished(i)
    \/ \E i \in DOMAIN workers : WorkerError(i)
    \/ SlotsRun

SpecRace == InitRace /\ [][NextRace]_vars

----------------------------------------------------------------------------
(* Properties *)

IsErrorEntry(e) == "error" \in DOMAIN e

IsNormalizedEntry(e) == "definitions" \in DOMAIN e

\* the CombinedResult a search-all lookup has delivered, if any
Delivered == SelectSeq(signals, LAMBDA sg : sg.sig = "finished")

SearchAllDelivered == req.search_all /\ wpc = "done" /\ Delivered # <<>>

\* C1: the sources of the CombinedResult of get_word_data hold exactly one
\* element per configured extractor, and element i is the result of extractor
\* i of the configured list, in whatever order the fetches completed.
C1_SourcesInRegistrationOrder ==
    SearchAllDelivered =>
        LET sources == Delivered[1].payload.sources
        IN  /\ Len(sources) = Len(scrapers)
            /\ \A i \in DOMAIN scrapers :
                  /\ tasks[i].scraper = scrapers[i]
                  /\ sources[i] = tasks[i].outcome[1].value
                  /\ sources[i].source = scrapers[i].name

\* a lookup whose fetches completed last-first-second and whose three
\* sources are an error entry and two different entries with definitions
C1_Witness ==
    /\ SearchAllDelivered
    /\ order = <<3, 1, 2>>
    /\ LET sources == Delivered[1].payload.sources
       IN  /\ Len(sources) = 3
           /\ IsErrorEntry(sources[1])
           /\ IsNormalizedEntry(sources[2]) /\ sources[2].definitions # <<>>
           /\ IsNormalizedEntry(sources[3]) /\ sources[3].definitions # <<>>

\* C2: get_word_data returns only after every configured extractor has
\* produced its result; a fetch or extraction failure of one extractor does
\* not keep another from completing, does not change another's result, and
\* does not make get_word_data fail: the worker emits finished, never error.
C2_AllCompleteNoFailure ==
    (req.search_all /\ wpc = "done") =>
        /\ Len(tasks) = Len(scrapers)
        /\ \A i \in DOMAIN tasks :
              Done(tasks[i]) /\ tasks[i].outcome[1].kind = "return"
        /\ Len(signals) = 1
        /\ signals[1].sig = "finished"
        /\ Len(signals[1].payload.sources) = Len(scrapers)
        /\ \A i \in DOMAIN tasks :
              signals[1].payload.sources[i]
                  = get_definition(scrapers[i], req.word, tasks[i].soup).value

\* a finished lookup in which the fetch of one source failed, the extraction
\* of another raised, and the third delivered definitions
C2_Witness ==
    /\ req.search_all /\ wpc = "done"
    /\ \E i, j, k \in DOMAIN tasks :
          /\ tasks[i].soup = None
          /\ tasks[j].soup # None /\ IsErrorEntry(tasks[j].outcome[1].value)
          /\ IsNormalizedEntry(tasks[k].outcome[1].value)
          /\ tasks[k].outcome[1].value.definitions # <<>>

\* C3: when fetch_page returns None, get_definition returns the entry
\* {source: the extractor's name, error: "Failed to fetch page"}, and in the
\* CombinedResult every other source's entry is what its own fetch gives.
C3_AbsentGivesFetchFailed ==
    /\ \A i \in DOMAIN tasks :
          (Done(tasks[i]) /\ tasks[i].soup = None) =>
              tasks[i].outcome[1] =
                  [kind |-> "return",
                   value |-> [source |-> tasks[i].scraper.name,
                              error |-> "Failed to fetch page"]]
    /\ SearchAllDelivered =>
          LET sources == Delivered[1].payload.sources
          IN  \A i \in DOMAIN tasks :
                  tasks[i].soup = None =>
                      /\ sources[i] = [source |-> scrapers[i].name,
                                       error |-> "Failed to fetch page"]
                      /\ \A j \in DOMAIN tasks \ {i} :
                            sources[j] = get_definition(scrapers[j], req.word,
                                                        tasks[j].soup).value

\* a delivered result in which the Merriam-Webster fetch failed and the
\* other two sources carry definitions
C3_Witness ==
    /\ SearchAllDelivered
    /\ tasks[1].soup = None
    /\ tasks[1].scraper.cls = "MerriamWebsterScraper"
    /\ \A j \in {2, 3} :
          /\ IsNormalizedEntry(Delivered[1].payload.sources[j])
          /\ Delivered[1].payload.sources[j].definitions # <<>>

\* C4: an exception raised by the extraction of any extractor, the
\* Merriam-Webster legacy fallback included, does not leave get_definition:
\* the call returns an error entry whose error is the exception's text.
C4_ExceptionsBecomeErrorEntries ==
    \A i \in DOMAIN tasks :
        Done(tasks[i]) =>
            LET body == extract_body(tasks[i].scraper, req.word, tasks[i].soup)
                outcome == tasks[i].outcome[1]
            IN  /\ outcome.kind = "return"
                /\ body.kind = "raise" =>
                      /\ IsErrorEntry(outcome.value)
                      /\ outcome.value.error = body.exc.text
                      /\ outcome.value.source = tasks[i].scraper.name

\* the legacy fallback of Merriam-Webster raised and the call returned an
\* error entry
C4_Witness ==
    \E i \in DOMAIN tasks :
        /\ Done(tasks[i])
        /\ tasks[i].soup = Some(MWLegacyFaultPage)
        /\ tasks[i].outcome[1].kind = "return"
        /\ IsErrorEntry(tasks[i].outcome[1].value)

ProbeDone == probe.pc = "done"

ProbeEntry == probe.outcome.value

\* C5: every unit in the definitions of every entry returned by an extractor
\* has a non-empty definition string.
C5_NoEmptyDefinition ==
    (ProbeDone /\ probe.outcome.kind = "return" /\ IsNormalizedEntry(ProbeEntry)) =>
        \A k \in DOMAIN ProbeEntry.definitions :
            ProbeEntry.definitions[k].definition # <<>>

\* the page matches none of the selectors of the extractor
MatchesNoSelector(cls, page) ==
    CASE cls = "MerriamWebsterScraper" ->
           /\ page.vg = <<>> /\ page.fl = None
           /\ page.div_sense = <<>> /\ page.span_dt = <<>>
      [] cls = "CambridgeDictionaryScraper" -> page.entries = <<>>
      [] cls = "LongmanDictionaryScraper" ->
           /\ page.dictentry = <<>> /\ page.wordfams = <<>>
           /\ page.exaGroup = <<>> /\ page.verbTable = None

\* C6: when the fetch succeeds and the page matches none of the extractor's
\* selectors, get_definition returns an entry with source, word, url and an
\* empty definitions sequence, and not an error entry.
C6_UnmatchedPageGivesEmptyEntry ==
    (/\ ProbeDone
     /\ probe.soup # None
     /\ ~TreeFault(probe.soup[1])
     /\ ("legacy_fault" \in DOMAIN probe.soup[1] => probe.soup[1].legacy_fault = None)
     /\ MatchesNoSelector(probe.scraper.cls, probe.soup[1])) =>
        /\ probe.outcome.kind = "return"
        /\ {"source", "word", "url", "definitions"} \subseteq DOMAIN ProbeEntry
        /\ ~IsErrorEntry(ProbeEntry)
        /\ ProbeEntry.definitions = <<>>

\* one of the two shapes of an entry, and a source field
WellShaped(e) ==
    /\ "source" \in DOMAIN e
    /\ \/ "error" \in DOMAIN e /\ "definitions" \notin DOMAIN e
       \/ /\ {"word", "url", "definitions"} \subseteq DOMAIN e
          /\ "error" \notin DOMAIN e

\* C7: every value get_definition returns, for any extractor and any page,
\* and so every element of the sources of a CombinedResult, has a source
\* field and either an error field and no definitions field, or word, url
\* and definitions fields and no error field.
C7_TwoShapes ==
    /\ ProbeDone =>
          probe.outcome.kind = "return" /\ WellShaped(probe.outcome.value)
    /\ \A i \in DOMAIN tasks :
          Done(tasks[i]) =>
              /\ tasks[i].outcome[1].kind = "return"
              /\ WellShaped(tasks[i].outcome[1].value)
    /\ SearchAllDelivered =>
          \A i \in DOMAIN Delivered[1].payload.sources :
              WellShaped(Delivered[1].payload.sources[i])

\* a CombinedResult that holds the entry of an extraction that raised, the
\* entry of a failed fetch and an entry with definitions
C7_Witness ==
    /\ SearchAllDelivered
    /\ \E i, j, k \in DOMAIN tasks :
          LET sources == Delivered[1].payload.sources
          IN  /\ tasks[i].soup # None /\ IsErrorEntry(sources[i])
              /\ "trace" \in DOMAIN sources[i]
              /\ tasks[j].soup = None /\ IsErrorEntry(sources[j])
              /\ IsNormalizedEntry(sources[k]) /\ sources[k].definitions # <<>>

MerriamAliases ==
    {<<"m", "e", "r", "r", "i", "a", "m">>, <<"m", "e", "r", "r", "i", "a", "m", "-", "w", "e", "b", "s", "t", "e", "r">>, <<"m">>, <<"m", "w">>,
     <<"M", "W">>, <<"M", "e", "r", "r", "i", "a", "m", "-", "W", "e", "b", "s", "t", "e", "r">>}

LongmanAliases == {<<"l", "o", "n", "g", "m", "a", "n">>, <<"l">>, <<"L", "o", "n", "g", "m", "a", "n">>}

CambridgeAliases == {<<"c", "a", "m", "b", "r", "i", "d", "g", "e">>, <<"c">>, <<"C", "a", "m", "b", "r", "i", "d", "g", "e">>}

\* the identifiers of a single-dictionary lookup that match no alias
UnknownIds == SourceIds \ (MerriamAliases \cup LongmanAliases \cup CambridgeAliases)

SingleLookupOf(ids) ==
    ~req.search_all /\ req.dictionary # None /\ req.dictionary[1] \in ids

ProbeCambridge ==
    /\ ProbeDone
    /\ probe.scraper.cls = "CambridgeDictionaryScraper"
    /\ probe.outcome.kind = "return"
    /\ IsNormalizedEntry(ProbeEntry)

\* the def-blocks of the page that yield a unit, in page order
RECURSIVE UnitBlocks(_)
UnitBlocks(entries) ==
    IF entries = <<>> THEN <<>>
    ELSE SelectSeq(Take(Head(entries).blocks, 5), LAMBDA b : b.def # None)
         \o UnitBlocks(Tail(entries))

\* C10 as stated: every unit of a Cambridge entry has a translation field if
\* and only if the language of the extractor is not "english".
C10_TranslationIffNotEnglish ==
    ProbeCambridge =>
        \A k \in DOMAIN ProbeEntry.definitions :
            ("translation" \in DOMAIN ProbeEntry.definitions[k])
                <=> (probe.language[1] # "english")

\* C10 as the extractor does it: a unit of a Cambridge entry has a
\* translation field if and only if the language of the extractor is one of
\* chinese, japanese, korean, italian and the unit's def-block holds a
\* translation element whose text is not blank; the field is that text.
C10_TranslationIffBilingualAndPresent ==
    ProbeCambridge =>
        LET blocks == UnitBlocks(Take(probe.soup[1].entries, 2))
            units == ProbeEntry.definitions
        IN  /\ Len(units) = Len(blocks)
            /\ \A k \in DOMAIN units :
                  /\ ("translation" \in DOMAIN units[k])
                        <=> /\ probe.language[1] \in
                                   {"chinese", "japanese", "korean", "italian"}
                            /\ blocks[k].trans # None
                            /\ clean_text(blocks[k].trans[1]) # <<>>
                  /\ "translation" \in DOMAIN units[k] =>
                        units[k].translation = clean_text(blocks[k].trans[1])

\* a Chinese-English extractor returned a unit with a translation and a unit
\* without one
C10_Witness ==
    /\ ProbeCambridge
    /\ probe.language = <<"chinese">>
    /\ \E k, m \in DOMAIN ProbeEntry.definitions :
          /\ "translation" \in DOMAIN ProbeEntry.definitions[k]
          /\ "translation" \notin DOMAIN ProbeEntry.definitions[m]

\* a Merriam-Webster call on a page that was fetched and can be queried
ProbeMerriam ==
    /\ ProbeDone
    /\ probe.scraper.cls = "MerriamWebsterScraper"
    /\ probe.soup # None
    /\ ~TreeFault(probe.soup[1])

\* the sub-sense elements one numbered item is scanned for
ScannedOf(item) ==
    IF item.subsenses # <<>> THEN item.subsenses ELSE item.content

\* every scanned sub-sense of the items, in document order, each with the
\* label of its enclosing item
RECURSIVE LabelledOfItems(_)
LabelledOfItems(items) ==
    IF items = <<>> THEN <<>>
    ELSE [i \in DOMAIN ScannedOf(Head(items)) |->
              [label |-> Head(items).label, sub |-> ScannedOf(Head(items))[i]]]
         \o LabelledOfItems(Tail(items))

RECURSIVE LabelledOfBlocks(_)
LabelledOfBlocks(blocks) ==
    IF blocks = <<>> THEN <<>>
    ELSE LabelledOfItems(Head(blocks).items) \o LabelledOfBlocks(Tail(blocks))

HasDefinitionText(ls) ==
    /\ ls.sub.dtText # None
    /\ StripColon(clean_text(ls.sub.dtText[1])) # <<>>

\* the sub-senses of the page that have definition text, in document order
UsableSubsenses(page) == SelectSeq(LabelledOfBlocks(page.vg), HasDefinitionText)

\* C11: Merriam-Webster get_definition runs the legacy fallback exactly when
\* the page has no .vg block or the scan of the .vg blocks yields no
\* definition; then what it returns is what the fallback returns (its
\* definitions, possibly none, or its exception as an error entry) with no
\* unit of the primary scan; when the primary scan yields a definition the
\* fallback is not run and the primary units are returned.
C11_FallbackExactlyWhenPrimaryEmpty ==
    ProbeMerriam =>
        LET page == probe.soup[1]
            fallback == legacy_get_definition(probe.scraper, page, probe.word,
                                              Url(probe.scraper, probe.word))
        IN  IF page.vg = <<>> \/ UsableSubsenses(page) = <<>>
            THEN IF fallback.kind = "raise"
                 THEN /\ IsErrorEntry(ProbeEntry)
                      /\ ProbeEntry.error = fallback.exc.text
                 ELSE /\ probe.outcome = fallback
                      /\ \A k \in DOMAIN ProbeEntry.definitions :
                            /\ "sense_number" \notin DOMAIN ProbeEntry.definitions[k]
                            /\ "sense_letter" \notin DOMAIN ProbeEntry.definitions[k]
            ELSE /\ IsNormalizedEntry(ProbeEntry)
                 /\ Len(ProbeEntry.definitions) = Len(UsableSubsenses(page))
                 /\ ProbeEntry.definitions = MWPrimary(page.vg)

\* a page with a .vg block that yields no definition, on which the fallback
\* found a definition
C11_Witness ==
    /\ ProbeMerriam
    /\ probe.soup[1].vg # <<>>
    /\ UsableSubsenses(probe.soup[1]) = <<>>
    /\ probe.soup[1].div_sense # <<>>
    /\ IsNormalizedEntry(ProbeEntry)
    /\ ProbeEntry.definitions # <<>>

\* a page with primary definitions on which the fallback would have raised
\* or would have found a definition of its own
C11_WitnessNotRun ==
    /\ ProbeMerriam
    /\ UsableSubsenses(probe.soup[1]) # <<>>
    /\ probe.soup[1].legacy_fault # None
    /\ IsNormalizedEntry(ProbeEntry)

\* the labels a unit carries, absent ones as None
UnitLabels(unit) ==
    <<IF "sense_number" \in DOMAIN unit THEN Some(unit.sense_number) ELSE None,
      IF "sense_letter" \in DOMAIN unit THEN Some(unit.sense_letter) ELSE None>>

CleanOrNone(opt) ==
    IF opt # None /\ clean_text(opt[1]) # <<>> THEN Some(clean_text(opt[1])) ELSE None

\* C12: in the primary scan of Merriam-Webster the units are, in document
\* order, the sub-senses that have definition text: a lettered sub-sense gives
\* one unit with the sense_number of its enclosing numbered sense and its own
\* sense_letter, a numbered sense without lettered sub-senses gives one unit
\* with its sense_number and no sense_letter; a block with sense 1 split into
\* a and b and a plain sense 2 gives the three units 1a, 1b, 2.
C12_PrimaryUnitsInDocumentOrder ==
    (ProbeMerriam /\ UsableSubsenses(probe.soup[1]) # <<>>) =>
        LET usable == UsableSubsenses(probe.soup[1])
            units == ProbeEntry.definitions
        IN  /\ IsNormalizedEntry(ProbeEntry)
            /\ Len(units) = Len(usable)
            /\ \A k \in DOMAIN units :
                  /\ units[k].definition
                        = StripColon(clean_text(usable[k].sub.dtText[1]))
                  /\ UnitLabels(units[k])
                        = <<CleanOrNone(usable[k].label), CleanOrNone(usable[k].sub.letter)>>
            /\ probe.soup[1].vg = <<MWGoodBlock>> =>
                  [k \in DOMAIN units |-> UnitLabels(units[k])]
                      = << <<Some(<<"1">>), Some(<<"a">>)>>,
                           <<Some(<<"1">>), Some(<<"b">>)>>,
                           <<Some(<<"2">>), None>> >>

\* the call on the block with senses 1a, 1b and 2 returned three units
C12_Witness ==
    /\ ProbeMerriam
    /\ probe.soup[1].vg = <<MWGoodBlock>>
    /\ IsNormalizedEntry(ProbeEntry)
    /\ Len(ProbeEntry.definitions) = 3
    /\ "sense_letter" \notin DOMAIN ProbeEntry.definitions[3]

ProbeFetched == probe.pc = "fetched" /\ "resp" \in DOMAIN probe

\* C14 as stated: fetch_page returns None on a network error, on a status
\* outside 200..299 and on a body that cannot be read, and the parsed document
\* in every other case.
C14_AbsentExactlyOnNon2xx ==
    ProbeFetched =>
        LET resp == probe.resp
            failed == \/ resp.kind = "neterr"
                      \/ resp.status \notin 200..299
                      \/ ~resp.parsed
        IN  IF failed THEN probe.soup = None ELSE probe.soup = <<resp.doc>>

\* C14 as fetch_page does it: it returns None on a network error, on every
\* status other than 200 (other 2xx statuses included) and on a body that
\* cannot be read, and the parsed document in every other case; it returns
\* in every case and raises in none.
C14_AbsentExactlyOnNon200 ==
    ProbeFetched =>
        LET resp == probe.resp
            failed == \/ resp.kind = "neterr"
                      \/ resp.status # 200
                      \/ ~resp.parsed
        IN  IF failed THEN probe.soup = None ELSE probe.soup = <<resp.doc>>

\* a response with status 204 and a readable body was turned into None
C14_Witness ==
    /\ ProbeFetched
    /\ probe.resp.kind = "http"
    /\ probe.resp.status = 204
    /\ probe.resp.parsed
    /\ probe.soup = None

\* the requests sent for task i
FetchesOf(i) ==
    {k \in DOMAIN fetches : fetches[k] = Url(tasks[i].scraper, req.word)}

\* C15: every get_definition call sends exactly one request, also when the
\* Merriam-Webster legacy fallback runs and when the fetch fails (no retry),
\* and get_word_data sends exactly one request per configured extractor.
C15_OneFetchPerCall ==
    /\ Len(fetches) = Cardinality({i \in DOMAIN tasks : tasks[i].pc # "created"})
    /\ \A i \in DOMAIN tasks :
          Cardinality(FetchesOf(i)) = IF tasks[i].pc = "created" THEN 0 ELSE 1
    /\ (req.search_all /\ wpc = "done") =>
          /\ Len(fetches) = Len(scrapers)
          /\ \A i \in DOMAIN scrapers : fetches[i] = Url(scrapers[i], req.word)

\* a finished search-all lookup in which the Merriam-Webster call ran the
\* legacy fallback and another call's fetch failed, with three requests sent
C15_Witness ==
    /\ req.search_all /\ wpc = "done"
    /\ Len(fetches) = 3
    /\ \E i, j \in DOMAIN tasks :
          /\ tasks[i].scraper.cls = "MerriamWebsterScraper"
          /\ tasks[i].soup = Some(MWEmptyPage)
          /\ tasks[j].soup = None

\* C16: when the work of a lookup has ended, on any path (search-all, one
\* dictionary, unknown identifier, exception), the session the worker opened
\* for it has been closed.
C16_SessionClosedWhenDone ==
    (wpc = "done" /\ session # "none") => session = "closed"

\* C17: over any sequence of initialize, get_word_data and close calls on one
\* CombinedDictionaryScraper, no request is sent on a session that has been
\* closed.
C17_NoFetchOnClosedSession ==
    \A k \in DOMAIN fetches : fetches[k].session = "open"

\* a Cambridge re-query started by a change of language is under way or has
\* just delivered
Requerying == gui.requeries > 0 /\ ~req.search_all /\ wpc # "idle"

\* C18: a Cambridge language re-query builds a new Cambridge extractor for the
\* selected language and sends a request to Cambridge only, none to
\* Merriam-Webster or Longman; when it completes, the stored Cambridge result
\* is replaced by the new entry and the stored Merriam-Webster and Longman
\* results stay as they were.
C18_RequeryTouchesCambridgeOnly ==
    /\ [](Requerying =>
            LET cambridge == CambridgeDictionaryScraper(gui.lang)
            IN  /\ req.language = <<gui.lang>>
                /\ Len(tasks) <= 1
                /\ \A i \in DOMAIN tasks : tasks[i].scraper = cambridge
                /\ Len(fetches) <= 1
                /\ \A k \in DOMAIN fetches :
                      /\ fetches[k] = <<cambridge.base_url, gui.current_word[1]>>
                      /\ fetches[k][1] \notin {MerriamWebsterScraper.base_url,
                                               LongmanDictionaryScraper.base_url}
                /\ wpc = "done" =>
                      /\ Len(fetches) = 1
                      /\ Len(signals) = 1
                      /\ signals[1].sig = "finished"
                      /\ signals[1].payload.source = cambridge.name)
    /\ [][(Requerying /\ wpc = "done" /\ wpc' = "idle") =>
            /\ gui'.dictionary_data.merriam = gui.dictionary_data.merriam
            /\ gui'.dictionary_data.longman = gui.dictionary_data.longman
            /\ gui'.dictionary_data.cambridge = <<signals[1].payload>>]_vars

\* after a search in Chinese that stored definitions for all three sources,
\* a re-query in Japanese has completed: the stored Cambridge entry is the
\* Japanese one, the other two still hold their definitions
C18_Witness ==
    /\ wpc = "idle"
    /\ gui.requeries = 1
    /\ gui.lang = "japanese"
    /\ gui.dictionary_data.cambridge # None
    /\ gui.dictionary_data.cambridge[1].source = "Cambridge Dictionary (English-Japanese)"
    /\ IsNormalizedEntry(gui.dictionary_data.cambridge[1])
    /\ gui.dictionary_data.merriam # None
    /\ IsNormalizedEntry(gui.dictionary_data.merriam[1])
    /\ gui.dictionary_data.merriam[1].definitions # <<>>
    /\ gui.dictionary_data.longman # None
    /\ IsNormalizedEntry(gui.dictionary_data.longman[1])

\* the examples a unit of the block is to carry: of each of the first three
\* example elements the English sub-example if there is one, else its text
ExpectedExamples(block) ==
    [x \in 1..(IF Len(block.examps) < 3 THEN Len(block.examps) ELSE 3) |->
        IF block.examps[x].eg # None THEN clean_text(block.examps[x].eg[1])
        ELSE clean_text(block.examps[x].text)]

\* C19: the units of a Cambridge entry are, in document order, those of the
\* def-blocks with a definition element among the first 5 def-blocks of each
\* of the first 2 entries, so there are at most 10; a unit carries at most 3
\* examples, those of the first 3 example elements; what lies beyond these
\* caps is ignored and raises no error.
C19_CambridgeCaps ==
    (ProbeDone /\ probe.scraper.cls = "CambridgeDictionaryScraper"
       /\ probe.soup # None /\ ~TreeFault(probe.soup[1])) =>
        LET blocks == UnitBlocks(Take(probe.soup[1].entries, 2))
            units == ProbeEntry.definitions
        IN  /\ probe.outcome.kind = "return"
            /\ IsNormalizedEntry(ProbeEntry)
            /\ Len(units) <= 10
            /\ Len(units) = Len(blocks)
            /\ \A k \in DOMAIN units :
                  /\ units[k].definition = clean_text(blocks[k].def[1])
                  /\ Len(units[k].examples) <= 3
                  /\ units[k].examples = ExpectedExamples(blocks[k])

\* a page with 3 entries, 6 def-blocks in each and 4 examples in each block
\* gave 10 units of 3 examples
C19_Witness ==
    /\ ProbeDone
    /\ probe.scraper.cls = "CambridgeDictionaryScraper"
    /\ probe.soup # None
    /\ Len(probe.soup[1].entries) = 3
    /\ Len(probe.soup[1].entries[1].blocks) = 6
    /\ Len(probe.soup[1].entries[1].blocks[1].examps) = 4
    /\ IsNormalizedEntry(ProbeEntry)
    /\ Len(ProbeEntry.definitions) = 10
    /\ Len(ProbeEntry.definitions[10].examples) = 3

\* the sense blocks with a .DEF element, as <<entry, position in the entry>>
DefinedSenses(page) ==
    UNION {{<<e, k>> : k \in {j \in DOMAIN page.dictentry[e].Sense :
                                  page.dictentry[e].Sense[j].Def # None}} :
           e \in DOMAIN page.dictentry}

\* the place of a sense block among those of DefinedSenses in document order
DocumentRank(page, q) ==
    Cardinality({r \in DefinedSenses(page) :
                    r[1] < q[1] \/ (r[1] = q[1] /\ r[2] <= q[2])})

\* C20: a Longman entry has one unit per sense block with a definition
\* element, in document order, and the unit's sense_number is the position of
\* the sense block among all the sense blocks of its own entry: the numbers
\* start at 1 again in every entry, and a sense block without a definition
\* still takes its number.
C20_SenseNumberIsPositionInEntry ==
    (ProbeDone /\ probe.scraper.cls = "LongmanDictionaryScraper"
       /\ probe.soup # None /\ probe.outcome.kind = "return"
       /\ IsNormalizedEntry(ProbeEntry)) =>
        LET page == probe.soup[1]
            units == ProbeEntry.definitions
        IN  /\ Len(units) = Cardinality(DefinedSenses(page))
            /\ \A q \in DefinedSenses(page) :
                  LET unit == units[DocumentRank(page, q)]
                  IN  /\ unit.sense_number = q[2]
                      /\ unit.definition =
                            clean_text(NodeText(page.dictentry[q[1]].Sense[q[2]].Def[1]))

\* two entries, the first with a sense without definition before one with a
\* definition: its unit has number 2, and the second entry's first has 1 again
C20_Witness ==
    /\ ProbeDone
    /\ probe.scraper.cls = "LongmanDictionaryScraper"
    /\ probe.soup # None
    /\ Len(probe.soup[1].dictentry) = 2
    /\ probe.soup[1].dictentry[1].Sense[1].Def = None
    /\ IsNormalizedEntry(ProbeEntry)
    /\ Len(ProbeEntry.definitions) = 3
    /\ ProbeEntry.definitions[1].sense_number = 2
    /\ ProbeEntry.definitions[2].sense_number = 1
    /\ ProbeEntry.definitions[3].sense_number = 3

\* the Longman probe has returned an entry with definitions
ProbeLongman ==
    /\ ProbeDone
    /\ probe.scraper.cls = "LongmanDictionaryScraper"
    /\ probe.soup # None
    /\ probe.outcome.kind = "return"
    /\ IsNormalizedEntry(ProbeEntry)

\* C21: the pos of a Longman unit is the part of speech of its enclosing
\* entry (the empty string when the entry has none), unless its sense has a
\* grammar annotation, which then takes the place of the inherited pos.
C21_GrammarOverridesPos ==
    ProbeLongman =>
        LET page == probe.soup[1]
        IN  \A q \in DefinedSenses(page) :
               LET entry == page.dictentry[q[1]]
                   sense == entry.Sense[q[2]]
                   unit == ProbeEntry.definitions[DocumentRank(page, q)]
               IN  unit.pos =
                      IF sense.GRAM # None
                      THEN clean_text(Remove(Remove(sense.GRAM[1], <<"[">>), <<"]">>))
                      ELSE IF entry.POS # None THEN clean_text(entry.POS[1])
                           ELSE <<>>

\* field f of record r is absent or not empty
AbsentOrNonEmpty(r, f) == f \in DOMAIN r => r[f] # <<>>

\* C22: in a Longman entry every optional sub-structure is present only
\* when it is not empty: grammar, grammatical_patterns, collocations, a
\* collocation's meaning and examples, related_word and thesaurus_ref of a
\* unit; word_family and each of its word lists, pronunciation, frequency,
\* corpus_examples and verb_forms of the entry.
C22_OptionalPresentOnlyWhenNonEmpty ==
    ProbeLongman =>
        /\ \A f \in {"pronunciation", "frequency", "corpus_examples"} :
              AbsentOrNonEmpty(ProbeEntry, f)
        /\ "verb_forms" \in DOMAIN ProbeEntry => DOMAIN ProbeEntry.verb_forms # {}
        /\ "word_family" \in DOMAIN ProbeEntry =>
              /\ DOMAIN ProbeEntry.word_family # {}
              /\ \A pos \in DOMAIN ProbeEntry.word_family :
                    ProbeEntry.word_family[pos] # <<>>
        /\ \A k \in DOMAIN ProbeEntry.definitions :
              LET unit == ProbeEntry.definitions[k]
              IN  /\ \A f \in {"grammar", "grammatical_patterns", "collocations",
                               "related_word", "thesaurus_ref"} :
                        AbsentOrNonEmpty(unit, f)
                  /\ "collocations" \in DOMAIN unit =>
                        \A c \in DOMAIN unit.collocations :
                           /\ AbsentOrNonEmpty(unit.collocations[c], "meaning")
                           /\ AbsentOrNonEmpty(unit.collocations[c], "examples")

RECURSIVE FamPositions(_, _)
\* the children of the word-family blocks from block b on, in document
\* order, as <<block, child>>
FamPositions(word_fams, b) ==
    IF b > Len(word_fams) THEN <<>>
    ELSE [i \in DOMAIN word_fams[b] |-> <<b, i>>] \o FamPositions(word_fams, b + 1)

\* the text of the most recent part-of-speech marker before child p of its block
RecentMarker(word_fams, p) ==
    LET before == {j \in 1..(p[2] - 1) : word_fams[p[1]][j].kind = "pos"}
    IN  IF before = {} THEN None
        ELSE LET last == CHOOSE j \in before : \A k \in before : k <= j
             IN  Some(clean_text(word_fams[p[1]][last].text))

\* the non-empty word nodes whose most recent marker reads pos, in document order
WordsUnder(word_fams, pos) ==
    LET under == SelectSeq(FamPositions(word_fams, 1),
                           LAMBDA p : /\ word_fams[p[1]][p[2]].kind \in {"w", "crossRef"}
                                      /\ strip(word_fams[p[1]][p[2]].text) # <<>>
                                      /\ RecentMarker(word_fams, p) = Some(pos))
    IN  [n \in DOMAIN under |-> clean_text(word_fams[under[n][1]][under[n][2]].text)]

\* the texts of all the part-of-speech markers of the blocks
MarkerTexts(word_fams) ==
    {clean_text(word_fams[b][i].text) :
        <<b, i>> \in {p \in UNION {{<<c, j>> : j \in DOMAIN word_fams[c]} :
                                   c \in DOMAIN word_fams} :
                         word_fams[p[1]][p[2]].kind = "pos"}}

\* C23: the word family is a left-to-right fold over the children of each
\* word-family block: every non-empty word node is appended, in document
\* order, to the list of the most recent part-of-speech marker before it in
\* its block; a word node before every marker of its block is in no list.
C23_WordFamilyFold ==
    ProbeLongman =>
        LET word_fams == probe.soup[1].wordfams
            word_family == IF "word_family" \in DOMAIN ProbeEntry
                           THEN ProbeEntry.word_family ELSE NoFields
        IN  /\ \A pos \in DOMAIN word_family :
                  word_family[pos] = WordsUnder(word_fams, pos)
            /\ \A pos \in MarkerTexts(word_fams) :
                  WordsUnder(word_fams, pos) # <<>> => pos \in DOMAIN word_family

\* the Merriam-Webster probe has returned the entry of the legacy fallback
ProbeLegacy ==
    /\ ProbeMerriam
    /\ probe.soup[1].vg = <<>> \/ UsableSubsenses(probe.soup[1]) = <<>>
    /\ probe.outcome.kind = "return"
    /\ IsNormalizedEntry(ProbeEntry)

\* s begins with digits, the enumeration marker the fallback strips
HasEnumerationMarker(s) == s # <<>> /\ IsDigit(Head(s))

\* s begins with "example", in any case, followed by a colon or full stop
HasExamplePrefix(s) ==
    /\ Len(s) > 7
    /\ lower(SubSeq(s, 1, 7)) = <<"e", "x", "a", "m", "p", "l", "e">>
    /\ LET r == LStrip(SubSeq(s, 8, Len(s)))
       IN  r # <<>> /\ Head(r) \in {":", "."}

\* C24: no unit returned by the Merriam-Webster legacy fallback has a
\* definition that begins with an em-dash or with an enumeration marker, and
\* none of its examples begins with an "Example:" prefix.
C24_LegacyUnitsStripped ==
    ProbeLegacy =>
        \A k \in DOMAIN ProbeEntry.definitions :
           LET unit == ProbeEntry.definitions[k]
           IN  /\ ~startswith(unit.definition, <<EmDash>>)
               /\ ~HasEnumerationMarker(unit.definition)
               /\ \A x \in DOMAIN unit.examples : ~HasExamplePrefix(unit.examples[x])

\* the sections the fallback scans, and those of them that give a unit
LegacyScanned(page) ==
    Take(IF page.div_sense # <<>> THEN page.div_sense ELSE page.span_dt, 7)

LegacyKept(page) ==
    SelectSeq(LegacyScanned(page),
              LAMBDA section : /\ LegacyDefinition(section) # <<>>
                               /\ ~startswith(LegacyDefinition(section), <<EmDash>>))

\* the definition text of a section before anything is stripped from it
LegacyRawText(section) ==
    IF section.dtText # None THEN clean_text(section.dtText[1])
    ELSE IF section.dt # None THEN clean_text(section.dt[1])
    ELSE IF Contains(section.text, ":") THEN clean_text(AfterFirst(section.text, ":"))
    ELSE clean_text(section.text)

IsProperSuffix(r, s) ==
    Len(r) < Len(s) /\ SubSeq(s, Len(s) - Len(r) + 1, Len(s)) = r

\* C24 (amended): no unit returned by the Merriam-Webster legacy fallback has
\* an empty definition or one that begins with an em-dash; one leading
\* enumeration marker is stripped from a definition and one "Example:"
\* prefix from each of the first three examples, so a definition or example
\* still begins with a marker or prefix only where the text carried a second
\* one behind the one that was stripped.
C24_LegacyUnitsStrippedOnce ==
    ProbeLegacy =>
        LET kept == LegacyKept(probe.soup[1])
            units == ProbeEntry.definitions
        IN  /\ Len(units) = Len(kept)
            /\ \A k \in DOMAIN units :
                  LET raw == LegacyRawText(kept[k])
                  IN  /\ units[k].definition # <<>>
                      /\ ~startswith(units[k].definition, <<EmDash>>)
                      /\ IF HasEnumerationMarker(raw)
                         THEN IsProperSuffix(units[k].definition, raw)
                         ELSE units[k].definition = raw
                      /\ Len(units[k].examples) <= 3
                      /\ \A x \in DOMAIN units[k].examples :
                            LET text == clean_text(kept[k].examples[x])
                            IN  IF HasExamplePrefix(text)
                                THEN IsProperSuffix(units[k].examples[x], text)
                                ELSE units[k].examples[x] = text

\* the fallback stripped "3)" from a definition and "Example:" from an
\* example, and neither result begins with a marker or prefix
C24_Witness ==
    /\ ProbeLegacy
    /\ Len(ProbeEntry.definitions) = 2
    /\ Len(LegacyKept(probe.soup[1])) = 2
    /\ ProbeEntry.definitions[1].examples # <<>>
    /\ HasExamplePrefix(clean_text(LegacyKept(probe.soup[1])[1].examples[1]))
    /\ ~HasExamplePrefix(ProbeEntry.definitions[1].examples[1])
    /\ HasEnumerationMarker(LegacyRawText(LegacyKept(probe.soup[1])[2]))
    /\ ProbeEntry.definitions[2].definition = <<"a", "n", " ", "e", "x", "a", "m">>

\* the name of the Cambridge extractor of each language
CambridgeNameFor(language) ==
    CASE language = "chinese" -> "Cambridge Dictionary (English-Chinese)"
      [] language = "japanese" -> "Cambridge Dictionary (English-Japanese)"
      [] language = "korean" -> "Cambridge Dictionary (English-Korean)"
      [] language = "italian" -> "Cambridge Dictionary (English-Italian)"
      [] OTHER -> "Cambridge Dictionary"

ProbeError ==
    /\ ProbeDone
    /\ probe.outcome.kind = "return"
    /\ IsErrorEntry(ProbeEntry)

\* C26 as stated: every error entry an extractor returns, for a fetch failure
\* or for an extraction exception, has exactly the fields source and error.
C26_ErrorEntryTwoFields ==
    ProbeError => DOMAIN ProbeEntry = {"source", "error"}

\* C26 (amended): every error entry an extractor returns has the fields
\* source, the extractor's name, and error, a string; the entry of a fetch
\* failure has exactly these two and the message "Failed to fetch page", the
\* entry of an extraction exception has the exception's text as error and a
\* third field, trace, naming the exception's type and line.
C26_ErrorEntryFields ==
    ProbeError =>
        /\ ProbeEntry.source = probe.scraper.name
        /\ IF probe.soup = None
           THEN /\ DOMAIN ProbeEntry = {"source", "error"}
                /\ ProbeEntry.error = "Failed to fetch page"
           ELSE /\ DOMAIN ProbeEntry = {"source", "error", "trace"}
                /\ ProbeEntry.error \in {TreeError.text, UnboundHeadwordInfo.text}
                /\ ProbeEntry.trace \in {<<TreeError.type, TreeError.line>>,
                                         <<UnboundHeadwordInfo.type,
                                           UnboundHeadwordInfo.line>>}

\* the Cambridge extractor returned the entry of an exception raised while
\* the page was queried
C26_Witness ==
    /\ ProbeError
    /\ probe.scraper.cls = "CambridgeDictionaryScraper"
    /\ probe.soup # None
    /\ ProbeEntry.error = TreeError.text
    /\ "trace" \in DOMAIN ProbeEntry

\* every worker has emitted finished and the window has run its slots
AllDelivered ==
    /\ workers # <<>>
    /\ signals = <<>>
    /\ \A i \in DOMAIN workers : workers[i].emitted = Some("finished")

\* C27: under any interleaving of search-all requests and Cambridge
\* re-queries started from the window, once every lookup in flight has
\* delivered its result, the stored result of each dictionary is for the
\* current word and the stored Cambridge result is for the language now
\* selected: no result of an earlier request replaces that of a later one.
C27_StoredResultsAreCurrent ==
    AllDelivered =>
        /\ \A key \in {"merriam", "longman", "cambridge"} :
              gui.dictionary_data[key] # None =>
                  gui.dictionary_data[key][1].word = gui.current_word[1]
        /\ gui.dictionary_data.cambridge # None =>
              gui.dictionary_data.cambridge[1].source = CambridgeNameFor(gui.lang)

\* the signals of worker i that wait in the window's event queue
QueuedOf(i) == {k \in DOMAIN signals : signals[k].worker = i}

\* C28: every lookup worker the window starts emits exactly one of the
\* signals finished and error, and once the window has run the slots of that
\* signal the worker's thread is stopped: no worker thread keeps running
\* after its lookup has ended in an error.
C28_WorkerThreadStops ==
    \A i \in DOMAIN workers :
       /\ Cardinality(QueuedOf(i)) <= 1
       /\ workers[i].emitted = None => QueuedOf(i) = {}
       /\ \A k \in QueuedOf(i) : workers[i].emitted = Some(signals[k].sig)
       /\ (workers[i].emitted # None /\ QueuedOf(i) = {}) =>
             workers[i].thread = "stopped"

\* C29: over any sequence of initialize, get_word_data and close calls on
\* one aggregator (get_word_data on an aggregator without extractors
\* initializes it), at most one session is open at a time and every session
\* that was opened is closed by the next close: no session is replaced in
\* the aggregator while open and left unclosed.
C29_NoSessionLeftOpen ==
    /\ \A k \in DOMAIN replaced : replaced[k] = "closed"
    /\ Cardinality({k \in DOMAIN replaced : replaced[k] = "open"})
          + (IF session = "open" THEN 1 ELSE 0) <= 1


\* the part-of-speech label element of the enclosing .vg block, once for
\* every scanned sub-sense of the blocks, in document order
RECURSIVE PosElemOfBlocks(_)
PosElemOfBlocks(blocks) ==
    IF blocks = <<>> THEN <<>>
    ELSE [i \in DOMAIN LabelledOfItems(Head(blocks).items) |->
              [pos_elem |-> Head(blocks).pos_elem,
               ls |-> LabelledOfItems(Head(blocks).items)[i]]]
         \o PosElemOfBlocks(Tail(blocks))

HasDefinitionTextIn(pl) == HasDefinitionText(pl.ls)

\* the label elements of the blocks the primary units come from, unit by unit
UnitPosElems(page) == SelectSeq(PosElemOfBlocks(page.vg), HasDefinitionTextIn)

\* C30: in the Merriam-Webster primary scan the pos of every unit is the
\* whitespace-normalized text of the part-of-speech label of the block the
\* unit comes from, and it is empty only when the block has no label.
C30_PosIsLabelText ==
    (ProbeMerriam /\ UsableSubsenses(probe.soup[1]) # <<>>) =>
        LET elems == UnitPosElems(probe.soup[1])
        IN  /\ Len(ProbeEntry.definitions) = Len(elems)
            /\ \A k \in DOMAIN elems :
                  /\ elems[k].pos_elem # None =>
                        ProbeEntry.definitions[k].pos
                           = clean_text(elems[k].pos_elem[1].text)
                  /\ ProbeEntry.definitions[k].pos = <<>>
                        => elems[k].pos_elem = None

====
